---- MODULE Spec2Model ----
(***************************************************************************)
(* A model of the referral network: the in-memory store                    *)
(* (InMemoryStorage), the validating front (ReferralNetwork) and the       *)
(* influence analytics (influence.ts).                                     *)
(*                                                                         *)
(* A user id is a JavaScript string, modelled as the sequence of its       *)
(* characters, so that trim(), the key `${referrer}:${candidate}` and      *)
(* localeCompare are computed and not assumed.                             *)
(***************************************************************************)
EXTENDS Integers, Sequences, FiniteSets, TLC

VARIABLES
  users,              \* InMemoryStorage.users: the Map in insertion order, a sequence of UserNode
  referrals,          \* InMemoryStorage.referrals: the Map from referralKey to relationship
  storageInitialized, \* InMemoryStorage.isInitialized
  isInitialized,      \* ReferralNetwork.isInitialized
  config,             \* ReferralNetwork.config
  now,                \* the clock read by `new Date()`
  lastCall,           \* the last call made on the network and its arguments
  result,             \* what that call returned (or that it threw)
  observed,           \* a ranking a caller has kept, with the network it was made on
  calls,              \* the addReferral calls in flight: where each one stands
  raised              \* the storage call that raised an error during the last call, if one did

vars == <<users, referrals, storageInitialized, isInitialized, config, now, lastCall, result,
          observed, calls, raised>>

-----------------------------------------------------------------------------
(* Identifiers *)

\* The identifiers the callers pass as users: four one-letter names.
UserIds == { <<"a">>, <<"b">>, <<"c">>, <<"d">> }

\* The empty string and a whitespace-only string: what isValidUserId rejects.
BlankIds == { <<>>, <<" ">> }

AllIds == UserIds \cup BlankIds

\* Identifiers that hold the character the referral key is built with.
ColonIds == { <<"a">>, <<"a", ":">>, <<":", "b">>, <<"b">> }

\* the referrals made between them in the runs that remove users as well
ColonPairs ==
  { << <<"b">>, <<"a">> >>, << <<"a", ":">>, <<"b">> >>,
    << <<"a">>, <<":", "b">> >>, << <<"b">>, <<":", "b">> >>,
    << <<":", "b">>, <<"a", ":">> >> }

\* the six users of the networks the rankings are checked on with the
\* default k, and the referrals made between them
RankIds == { <<"a">>, <<"b">>, <<"c">>, <<"d">>, <<"e">>, <<"f">> }

RankPairs ==
  { << <<"a">>, <<"b">> >>, << <<"a">>, <<"c">> >>, << <<"b">>, <<"d">> >>,
    << <<"c">>, <<"e">> >>, << <<"c">>, <<"f">> >> }

\* `undefined` / `null`: the absent parent of a UserNode. No identifier
\* equals it, its only element not being a single character.
None == <<"null">>

Range(s) == { s[i] : i \in 1..Len(s) }

Includes(s, x) == \E i \in 1..Len(s) : s[i] = x

RECURSIVE Filter(_, _)
\* Array.prototype.filter(id => id !== x)
Filter(s, x) ==
  IF s = <<>> THEN <<>>
  ELSE IF Head(s) = x THEN Filter(Tail(s), x)
       ELSE <<Head(s)>> \o Filter(Tail(s), x)

IsSpace(ch) == ch = " "

RECURSIVE TrimStart(_)
TrimStart(s) ==
  IF s = <<>> THEN <<>>
  ELSE IF IsSpace(Head(s)) THEN TrimStart(Tail(s)) ELSE s

RECURSIVE TrimEnd(_)
TrimEnd(s) ==
  IF s = <<>> THEN <<>>
  ELSE IF IsSpace(s[Len(s)]) THEN TrimEnd(SubSeq(s, 1, Len(s) - 1)) ELSE s

\* String.prototype.trim
Trim(s) == TrimEnd(TrimStart(s))

\* the test without trim()
IsValidUserIdUntrimmed(userId) == Len(userId) > 0

\* ReferralNetwork.isValidUserId: every modelled identifier is a string.
IsValidUserId(userId) == Len(Trim(userId)) > 0

-----------------------------------------------------------------------------
(* InMemoryStorage: Map lookups on the users sequence *)

Has(us, id) == \E i \in 1..Len(us) : us[i].userId = id

IndexOf(us, id) == CHOOSE i \in 1..Len(us) : us[i].userId = id

Get(us, id) == us[IndexOf(us, id)]

UserIdsOf(us) == { us[i].userId : i \in 1..Len(us) }

\* this.users.delete(id): the other entries keep their order
RECURSIVE MapDelete(_, _)
MapDelete(us, id) ==
  IF us = <<>> THEN <<>>
  ELSE IF Head(us).userId = id THEN Tail(us)
       ELSE <<Head(us)>> \o MapDelete(Tail(us), id)

\* `${referrer}:${candidate}`
ReferralKey(referrer, candidate) == referrer \o <<":">> \o candidate

\* InMemoryStorage.addUser
StorageAddUser(us, userId, createdAt) ==
  IF Has(us, userId) THEN us
  ELSE Append(us, [userId |-> userId, directReferrals |-> <<>>,
                   parent |-> None, createdAt |-> createdAt])

\* addReferral pushing the candidate without the `includes` test
StorageAddReferralAlwaysPush(st, referrer, candidate, createdAt) ==
  LET referralKey == ReferralKey(referrer, candidate)
      refs == [k \in DOMAIN st.referrals \cup {referralKey} |->
                 IF k = referralKey
                 THEN [referrer |-> referrer, candidate |-> candidate,
                       createdAt |-> createdAt]
                 ELSE st.referrals[k]]
      us1 == StorageAddUser(StorageAddUser(st.users, referrer, createdAt),
                            candidate, createdAt)
      ri  == IndexOf(us1, referrer)
      us2 == [us1 EXCEPT ![ri].directReferrals = Append(@, candidate)]
      ci  == IndexOf(us2, candidate)
      us3 == [us2 EXCEPT ![ci].parent = referrer]
  IN [users |-> us3, referrals |-> refs]

\* InMemoryStorage.addReferral, on the store st = [users, referrals]
StorageAddReferral(st, referrer, candidate, createdAt) ==
  LET referralKey == ReferralKey(referrer, candidate)
      refs == [k \in DOMAIN st.referrals \cup {referralKey} |->
                 IF k = referralKey
                 THEN [referrer |-> referrer, candidate |-> candidate,
                       createdAt |-> createdAt]
                 ELSE st.referrals[k]]
      us1 == StorageAddUser(StorageAddUser(st.users, referrer, createdAt),
                            candidate, createdAt)
      ri  == IndexOf(us1, referrer)
      us2 == IF Includes(us1[ri].directReferrals, candidate) THEN us1
             ELSE [us1 EXCEPT ![ri].directReferrals = Append(@, candidate)]
      ci  == IndexOf(us2, candidate)
      us3 == [us2 EXCEPT ![ci].parent = referrer]
  IN [users |-> us3, referrals |-> refs]

\* this.referrals.delete(key)
RefsDelete(refs, key) == [k \in DOMAIN refs \ {key} |-> refs[k]]

RECURSIVE RemoveAsReferrer(_, _, _, _)
\* the first loop of removeUser, from child i of the removed user on: the
\* edge userId -> child is deleted and the child loses its parent
RemoveAsReferrer(st, userId, children, i) ==
  IF i > Len(children) THEN st
  ELSE LET childId == children[i]
           refs == RefsDelete(st.referrals, ReferralKey(userId, childId))
           us == IF Has(st.users, childId)
                 THEN [st.users EXCEPT ![IndexOf(st.users, childId)].parent = None]
                 ELSE st.users
       IN RemoveAsReferrer([users |-> us, referrals |-> refs], userId, children, i + 1)

RECURSIVE RemoveAsCandidate(_, _, _)
\* the second loop of removeUser over the entries `keys` still to visit: an
\* entry whose candidate is the removed user is deleted and the user is
\* filtered out of its referrer's list. No entry's treatment depends on
\* another's, so the order of the visit does not show in the outcome.
RemoveAsCandidate(st, userId, keys) ==
  IF keys = {} THEN st
  ELSE LET key == CHOOSE k \in keys : TRUE
           referral == st.referrals[key]
       IN IF referral.candidate = userId
          THEN LET refs == RefsDelete(st.referrals, key)
                   us == IF Has(st.users, referral.referrer)
                         THEN [st.users EXCEPT
                                 ![IndexOf(st.users, referral.referrer)].directReferrals =
                                    Filter(@, userId)]
                         ELSE st.users
               IN RemoveAsCandidate([users |-> us, referrals |-> refs], userId,
                                    keys \ {key})
          ELSE RemoveAsCandidate(st, userId, keys \ {key})

\* InMemoryStorage.removeUser
StorageRemoveUser(st, userId) ==
  IF ~Has(st.users, userId) THEN st
  ELSE LET st1 == RemoveAsReferrer(st, userId, Get(st.users, userId).directReferrals, 1)
           st2 == RemoveAsCandidate(st1, userId, DOMAIN st1.referrals)
       IN [users |-> MapDelete(st2.users, userId), referrals |-> st2.referrals]

\* InMemoryStorage.removeReferral
StorageRemoveReferral(st, referrer, candidate) ==
  LET refs == RefsDelete(st.referrals, ReferralKey(referrer, candidate))
      us1  == IF Has(st.users, referrer)
              THEN [st.users EXCEPT
                      ![IndexOf(st.users, referrer)].directReferrals = Filter(@, candidate)]
              ELSE st.users
      us2  == IF Has(us1, candidate)
              THEN [us1 EXCEPT ![IndexOf(us1, candidate)].parent = None]
              ELSE us1
  IN [users |-> us2, referrals |-> refs]

\* InMemoryStorage.clear
StorageClear(st) == [users |-> <<>>, referrals |-> << >>]

\* InMemoryStorage.getDirectReferrals
StorageGetDirectReferrals(us, userId) ==
  IF Has(us, userId) THEN Get(us, userId).directReferrals ELSE <<>>

\* InMemoryStorage.getParent: `user?.parent || null`
StorageGetParent(us, userId) ==
  IF Has(us, userId) /\ Get(us, userId).parent # None /\ Get(us, userId).parent # <<>>
  THEN Get(us, userId).parent
  ELSE None

RECURSIVE GetAllReferralsDfs(_, _, _)
RECURSIVE GetAllReferralsLoop(_, _, _, _)
\* the closure dfs of getAllReferrals; acc = [visited, result]
GetAllReferralsDfs(us, currentUserId, acc) ==
  IF currentUserId \in acc.visited THEN acc
  ELSE LET acc1 == [acc EXCEPT !.visited = @ \cup {currentUserId}]
       IN IF ~Has(us, currentUserId) THEN acc1
          ELSE GetAllReferralsLoop(us, Get(us, currentUserId).directReferrals, 1, acc1)

\* its for loop, from child i on: the child is pushed, then visited
GetAllReferralsLoop(us, children, i, acc) ==
  IF i > Len(children) THEN acc
  ELSE GetAllReferralsLoop(us, children, i + 1,
         GetAllReferralsDfs(us, children[i],
                            [acc EXCEPT !.result = Append(@, children[i])]))

\* InMemoryStorage.getAllReferrals
StorageGetAllReferrals(us, userId) ==
  GetAllReferralsDfs(us, userId, [visited |-> {}, result |-> <<>>]).result

\* InMemoryStorage.getAllUsers: the nodes in insertion order
StorageGetAllUsers(us) == us

RECURSIVE CanReachChildren(_, _, _, _, _)
\* the for loop of canReach over the children of one dequeued user, from
\* child i on: [found, queue, visited] when it ends or returns
CanReachChildren(children, i, target, queue, visited) ==
  IF i > Len(children) THEN [found |-> FALSE, queue |-> queue, visited |-> visited]
  ELSE IF children[i] = target
       THEN [found |-> TRUE, queue |-> queue, visited |-> visited]
       ELSE IF children[i] \notin visited
            THEN CanReachChildren(children, i + 1, target,
                                  Append(queue, children[i]), visited \cup {children[i]})
            ELSE CanReachChildren(children, i + 1, target, queue, visited)

RECURSIVE CanReachLoop(_, _, _, _)
\* the while loop of canReach
CanReachLoop(us, queue, visited, target) ==
  IF queue = <<>> THEN FALSE
  ELSE LET current == Head(queue)
           rest == Tail(queue)
       IN IF ~Has(us, current) THEN CanReachLoop(us, rest, visited, target)
          ELSE LET r == CanReachChildren(Get(us, current).directReferrals, 1,
                                         target, rest, visited)
               IN IF r.found THEN TRUE
                  ELSE CanReachLoop(us, r.queue, r.visited, target)

\* canReach looking at the direct referrals of `start` only
CanReachDirectOnly(us, start, target) ==
  IF start = target THEN TRUE
  ELSE Has(us, start) /\ Includes(Get(us, start).directReferrals, target)

\* InMemoryStorage.canReach
CanReach(us, start, target) ==
  IF start = target THEN TRUE
  ELSE CanReachLoop(us, <<start>>, {start}, target)

\* InMemoryStorage.wouldCreateCycle
WouldCreateCycle(us, referrer, candidate) == CanReach(us, candidate, referrer)

RECURSIVE CalculateDepthDfs(_, _, _)
RECURSIVE CalculateDepthLoop(_, _, _, _, _)
\* the closure dfs of calculateDepth: [depth, visited], the set `visited`
\* being shared by the whole traversal
CalculateDepthDfs(us, currentUserId, visited) ==
  IF currentUserId \in visited THEN [depth |-> 0, visited |-> visited]
  ELSE LET v1 == visited \cup {currentUserId}
       IN IF ~Has(us, currentUserId) \/ Len(Get(us, currentUserId).directReferrals) = 0
          THEN [depth |-> 0, visited |-> v1]
          ELSE LET r == CalculateDepthLoop(us, Get(us, currentUserId).directReferrals,
                                           1, 0, v1)
               IN [depth |-> 1 + r.depth, visited |-> r.visited]

\* its for loop, from child i on, maxChildDepth so far
CalculateDepthLoop(us, children, i, maxChildDepth, visited) ==
  IF i > Len(children) THEN [depth |-> maxChildDepth, visited |-> visited]
  ELSE LET r == CalculateDepthDfs(us, children[i], visited)
       IN CalculateDepthLoop(us, children, i + 1,
                             IF r.depth > maxChildDepth THEN r.depth ELSE maxChildDepth,
                             r.visited)

\* InMemoryStorage.calculateDepth
CalculateDepth(us, userId) == CalculateDepthDfs(us, userId, {}).depth

RECURSIVE StatsLoop(_, _, _, _)
\* the for loop of getNetworkStats, from user i on: [maxDepth, totalReferralsPerUser]
StatsLoop(us, i, maxDepth, totalReferralsPerUser) ==
  IF i > Len(us) THEN [maxDepth |-> maxDepth, totalReferralsPerUser |-> totalReferralsPerUser]
  ELSE LET depth == CalculateDepth(us, us[i].userId)
       IN StatsLoop(us, i + 1, IF depth > maxDepth THEN depth ELSE maxDepth,
                    totalReferralsPerUser + Len(us[i].directReferrals))

\* InMemoryStorage.getNetworkStats. The quotient averageReferralsPerUser is
\* kept as its numerator and denominator (0 / 1 when there is no user).
StorageGetNetworkStats(st) ==
  LET l == StatsLoop(st.users, 1, 0, 0)
  IN [totalUsers |-> Len(st.users),
      totalReferrals |-> Cardinality(DOMAIN st.referrals),
      maxDepth |-> l.maxDepth,
      averageReferralsPerUser |->
        IF Len(st.users) > 0 THEN <<l.totalReferralsPerUser, Len(st.users)>> ELSE <<0, 1>>]


-----------------------------------------------------------------------------
(* ReferralNetwork *)

\* no storage call raised
NoFault == "none"

\* the constructor's defaults; 0 stands for an absent (falsy) limit
DefaultConfig ==
  [allowSelfReferrals |-> FALSE, allowMultipleReferrers |-> FALSE,
   allowCycles |-> FALSE, maxNetworkSize |-> 0, maxReferralsPerUser |-> 0]

\* ReferralNetwork.validateReferralInput
ValidateReferralInput(referrer, candidate) ==
  IF ~IsValidUserId(referrer) THEN "INVALID_INPUT"
  ELSE IF ~IsValidUserId(candidate) THEN "INVALID_INPUT"
  ELSE "OK"

\* validateReferralInput: the identifier the INVALID_INPUT failure names in
\* its details
InvalidInputDetails(referrer, candidate) ==
  IF ~IsValidUserId(referrer) THEN "referrer"
  ELSE IF ~IsValidUserId(candidate) THEN "candidate"
  ELSE "none"

\* validateReferralConstraints with the cycle check ahead of the
\* self-referral check
ValidateCycleBeforeSelf(cfg, st, referrer, candidate) ==
  IF ~cfg.allowCycles /\ WouldCreateCycle(st.users, referrer, candidate)
  THEN "CYCLE_DETECTED"
  ELSE IF ~cfg.allowSelfReferrals /\ referrer = candidate THEN "SELF_REFERRAL"
  ELSE IF /\ ~cfg.allowMultipleReferrers
          /\ StorageGetParent(st.users, candidate) # None
          /\ StorageGetParent(st.users, candidate) # referrer
       THEN "MULTIPLE_REFERRERS"
  ELSE IF /\ cfg.maxNetworkSize # 0
          /\ StorageGetNetworkStats(st).totalUsers >= cfg.maxNetworkSize
       THEN "NETWORK_SIZE_LIMIT"
  ELSE IF /\ cfg.maxReferralsPerUser # 0
          /\ Len(StorageGetDirectReferrals(st.users, referrer)) >= cfg.maxReferralsPerUser
       THEN "REFERRAL_LIMIT"
  ELSE "OK"

\* validateReferralConstraints letting a user with maxReferralsPerUser direct
\* referrals take one more
ValidateReferralLimitOffByOne(cfg, st, referrer, candidate) ==
  IF ~cfg.allowSelfReferrals /\ referrer = candidate THEN "SELF_REFERRAL"
  ELSE IF /\ ~cfg.allowMultipleReferrers
          /\ StorageGetParent(st.users, candidate) # None
          /\ StorageGetParent(st.users, candidate) # referrer
       THEN "MULTIPLE_REFERRERS"
  ELSE IF ~cfg.allowCycles /\ WouldCreateCycle(st.users, referrer, candidate)
       THEN "CYCLE_DETECTED"
  ELSE IF /\ cfg.maxNetworkSize # 0
          /\ StorageGetNetworkStats(st).totalUsers >= cfg.maxNetworkSize
       THEN "NETWORK_SIZE_LIMIT"
  ELSE IF /\ cfg.maxReferralsPerUser # 0
          /\ Len(StorageGetDirectReferrals(st.users, referrer)) > cfg.maxReferralsPerUser
       THEN "REFERRAL_LIMIT"
  ELSE "OK"

\* validateReferralConstraints without the cycle check
ValidateWithoutCycleCheck(cfg, st, referrer, candidate) ==
  IF ~cfg.allowSelfReferrals /\ referrer = candidate THEN "SELF_REFERRAL"
  ELSE IF /\ ~cfg.allowMultipleReferrers
          /\ StorageGetParent(st.users, candidate) # None
          /\ StorageGetParent(st.users, candidate) # referrer
       THEN "MULTIPLE_REFERRERS"
  ELSE IF /\ cfg.maxNetworkSize # 0
          /\ StorageGetNetworkStats(st).totalUsers >= cfg.maxNetworkSize
       THEN "NETWORK_SIZE_LIMIT"
  ELSE IF /\ cfg.maxReferralsPerUser # 0
          /\ Len(StorageGetDirectReferrals(st.users, referrer)) >= cfg.maxReferralsPerUser
       THEN "REFERRAL_LIMIT"
  ELSE "OK"

\* validateReferralConstraints with the cycle check ahead of the parent check
ValidateCycleBeforeParent(cfg, st, referrer, candidate) ==
  IF ~cfg.allowSelfReferrals /\ referrer = candidate THEN "SELF_REFERRAL"
  ELSE IF ~cfg.allowCycles /\ WouldCreateCycle(st.users, referrer, candidate)
       THEN "CYCLE_DETECTED"
  ELSE IF /\ ~cfg.allowMultipleReferrers
          /\ StorageGetParent(st.users, candidate) # None
          /\ StorageGetParent(st.users, candidate) # referrer
       THEN "MULTIPLE_REFERRERS"
  ELSE IF /\ cfg.maxNetworkSize # 0
          /\ StorageGetNetworkStats(st).totalUsers >= cfg.maxNetworkSize
       THEN "NETWORK_SIZE_LIMIT"
  ELSE IF /\ cfg.maxReferralsPerUser # 0
          /\ Len(StorageGetDirectReferrals(st.users, referrer)) >= cfg.maxReferralsPerUser
       THEN "REFERRAL_LIMIT"
  ELSE "OK"

\* ReferralNetwork.validateReferralConstraints
ValidateReferralConstraints(cfg, st, referrer, candidate) ==
  IF ~cfg.allowSelfReferrals /\ referrer = candidate THEN "SELF_REFERRAL"
  ELSE IF /\ ~cfg.allowMultipleReferrers
          /\ StorageGetParent(st.users, candidate) # None
          /\ StorageGetParent(st.users, candidate) # referrer
       THEN "MULTIPLE_REFERRERS"
  ELSE IF ~cfg.allowCycles /\ WouldCreateCycle(st.users, referrer, candidate)
       THEN "CYCLE_DETECTED"
  ELSE IF /\ cfg.maxNetworkSize # 0
          /\ StorageGetNetworkStats(st).totalUsers >= cfg.maxNetworkSize
       THEN "NETWORK_SIZE_LIMIT"
  ELSE IF /\ cfg.maxReferralsPerUser # 0
          /\ Len(StorageGetDirectReferrals(st.users, referrer)) >= cfg.maxReferralsPerUser
       THEN "REFERRAL_LIMIT"
  ELSE "OK"

\* ensureInitialized -> initialize -> storage.initialize: an uninitialized
\* store is emptied, an initialized one is left as it is
InitializedStore(st, sInit) ==
  IF sInit THEN st ELSE [users |-> <<>>, referrals |-> << >>]

\* every call initializing the store again, whatever the two flags say
EnsuredAfresh == InitializedStore([users |-> users, referrals |-> referrals], FALSE)

\* the store a call works on once `await this.ensureInitialized()` returned
Ensured == IF isInitialized THEN [users |-> users, referrals |-> referrals]
           ELSE InitializedStore([users |-> users, referrals |-> referrals],
                                 storageInitialized)

\* the validation part of ReferralNetwork.addReferral: the kind it returns
AddReferralKind(cfg, st, referrer, candidate) ==
  IF ValidateReferralInput(referrer, candidate) # "OK"
  THEN ValidateReferralInput(referrer, candidate)
  ELSE ValidateReferralConstraints(cfg, st, referrer, candidate)

\* addReferral creating its two users ahead of the validation
AddReferralCreatingUsersFirst(referrer, candidate) ==
  LET st0  == Ensured
      st   == [users |-> StorageAddUser(StorageAddUser(st0.users, referrer, now),
                                        candidate, now),
               referrals |-> st0.referrals]
      kind == AddReferralKind(config, st, referrer, candidate)
      st2  == IF kind = "OK" THEN StorageAddReferral(st, referrer, candidate, now)
              ELSE st
  IN /\ users' = st2.users
     /\ referrals' = st2.referrals
     /\ isInitialized' = TRUE
     /\ storageInitialized' = TRUE
     /\ lastCall' = [op |-> "addReferral", a |-> referrer, b |-> candidate]
     /\ result' = [kind |-> kind, data |-> <<>>]
     /\ raised' = NoFault
     /\ UNCHANGED <<config, now, observed, calls>>

\* ReferralNetwork.addReferral
AddReferral(referrer, candidate) ==
  LET st   == Ensured
      kind == AddReferralKind(config, st, referrer, candidate)
      st2  == IF kind = "OK" THEN StorageAddReferral(st, referrer, candidate, now)
              ELSE st
  IN /\ users' = st2.users
     /\ referrals' = st2.referrals
     /\ isInitialized' = TRUE
     /\ storageInitialized' = TRUE
     /\ lastCall' = [op |-> "addReferral", a |-> referrer, b |-> candidate]
     /\ result' = [kind |-> kind, data |-> <<>>]
     /\ raised' = NoFault
     /\ UNCHANGED <<config, now, observed, calls>>

\* ReferralNetwork.removeUser
RemoveUser(user) ==
  LET st   == Ensured
      kind == IF ~IsValidUserId(user) THEN "INVALID_INPUT" ELSE "OK"
      st2  == IF kind = "OK" THEN StorageRemoveUser(st, user) ELSE st
  IN /\ users' = st2.users
     /\ referrals' = st2.referrals
     /\ isInitialized' = TRUE
     /\ storageInitialized' = TRUE
     /\ lastCall' = [op |-> "removeUser", a |-> user, b |-> <<>>]
     /\ result' = [kind |-> kind, data |-> <<>>]
     /\ raised' = NoFault
     /\ UNCHANGED <<config, now, observed, calls>>

\* ReferralNetwork.clear
Clear ==
  LET st2 == StorageClear(Ensured)
  IN /\ users' = st2.users
     /\ referrals' = st2.referrals
     /\ isInitialized' = TRUE
     /\ storageInitialized' = TRUE
     /\ lastCall' = [op |-> "clear", a |-> <<>>, b |-> <<>>]
     /\ result' = [kind |-> "OK", data |-> <<>>]
     /\ raised' = NoFault
     /\ UNCHANGED <<config, now, observed, calls>>

\* ReferralNetwork.allReferrals, on the store the call works on
NetAllReferrals(st, user) ==
  IF ~IsValidUserId(user) THEN [kind |-> "INVALID_INPUT", data |-> <<>>]
  ELSE [kind |-> "OK", data |-> StorageGetAllReferrals(st.users, user)]

\* ReferralNetwork.directReferrals
NetDirectReferrals(st, user) ==
  IF ~IsValidUserId(user) THEN [kind |-> "INVALID_INPUT", data |-> <<>>]
  ELSE [kind |-> "OK", data |-> StorageGetDirectReferrals(st.users, user)]

\* ReferralNetwork.getAllUsers
NetGetAllUsers(st) == [kind |-> "OK", data |-> StorageGetAllUsers(st.users)]

\* ReferralNetwork.getParent; None stands for null
NetGetParent(st, user) ==
  IF ~IsValidUserId(user) THEN [kind |-> "INVALID_INPUT", data |-> <<>>]
  ELSE [kind |-> "OK", data |-> StorageGetParent(st.users, user)]

\* ReferralNetwork.userExists
NetUserExists(st, user) ==
  IF ~IsValidUserId(user) THEN [kind |-> "INVALID_INPUT", data |-> <<>>]
  ELSE [kind |-> "OK", data |-> Has(st.users, user)]

\* { ...this.config, ...newConfig }: the keys newConfig gives take its values
MergeConfig(cfg, newConfig) ==
  [k \in DOMAIN cfg |-> IF k \in DOMAIN newConfig THEN newConfig[k] ELSE cfg[k]]

\* ReferralNetwork.updateConfig: synchronous, without ensureInitialized
UpdateConfig(newConfig) ==
  /\ config' = MergeConfig(config, newConfig)
  /\ lastCall' = [op |-> "updateConfig", a |-> newConfig, b |-> <<>>]
  /\ result' = [kind |-> "OK", data |-> <<>>]
  /\ raised' = NoFault
  /\ UNCHANGED <<users, referrals, storageInitialized, isInitialized, now, observed, calls>>

\* storage.removeReferral called on the storage the network was constructed
\* with: the network has no operation of its own for it
RemoveReferral(referrer, candidate) ==
  LET st2 == StorageRemoveReferral([users |-> users, referrals |-> referrals],
                                   referrer, candidate)
  IN /\ users' = st2.users
     /\ referrals' = st2.referrals
     /\ lastCall' = [op |-> "removeReferral", a |-> referrer, b |-> candidate]
     /\ result' = [kind |-> "OK", data |-> <<>>]
     /\ raised' = NoFault
     /\ UNCHANGED <<storageInitialized, isInitialized, config, now, observed, calls>>

\* ReferralNetwork.getNetworkStats
NetGetNetworkStats(st) == [kind |-> "OK", data |-> StorageGetNetworkStats(st)]

\* A read of the network as a call: ensureInitialized, then the value `res`
\* computes from the store.
Read(op, user, res) ==
  LET st == Ensured
  IN /\ users' = st.users
     /\ referrals' = st.referrals
     /\ isInitialized' = TRUE
     /\ storageInitialized' = TRUE
     /\ lastCall' = [op |-> op, a |-> user, b |-> <<>>]
     /\ result' = res
     /\ raised' = NoFault
     /\ UNCHANGED <<config, now, observed, calls>>

\* ReferralNetwork.directReferrals as a call
DirectReferrals(user) == Read("directReferrals", user, NetDirectReferrals(Ensured, user))

\* ReferralNetwork.getParent as a call
GetParent(user) == Read("getParent", user, NetGetParent(Ensured, user))

\* ReferralNetwork.userExists as a call
UserExists(user) == Read("userExists", user, NetUserExists(Ensured, user))

\* ReferralNetwork.getAllUsers as a call
GetAllUsers == Read("getAllUsers", <<>>, NetGetAllUsers(Ensured))

\* ReferralNetwork.getNetworkStats as a call
GetNetworkStats == Read("getNetworkStats", <<>>, NetGetNetworkStats(Ensured))

\* ReferralNetwork.allReferrals as a call
AllReferrals(user) ==
  LET st == Ensured
  IN /\ users' = st.users
     /\ referrals' = st.referrals
     /\ isInitialized' = TRUE
     /\ storageInitialized' = TRUE
     /\ lastCall' = [op |-> "allReferrals", a |-> user, b |-> <<>>]
     /\ result' = NetAllReferrals(st, user)
     /\ raised' = NoFault
     /\ UNCHANGED <<config, now, observed, calls>>

-----------------------------------------------------------------------------
(* A storage collaborator that raises *)

\* the storage calls validateReferralInput, validateReferralConstraints and
\* addReferral make on the store st, in order, when none of them raises
AddReferralStorageCalls(cfg, st, referrer, candidate) ==
  LET kind == AddReferralKind(cfg, st, referrer, candidate)
  IN IF kind \in {"INVALID_INPUT", "SELF_REFERRAL"} THEN <<>>
     ELSE (IF ~cfg.allowMultipleReferrers THEN <<"getParent">> ELSE <<>>) \o
          IF kind = "MULTIPLE_REFERRERS" THEN <<>>
          ELSE (IF ~cfg.allowCycles THEN <<"wouldCreateCycle">> ELSE <<>>) \o
               IF kind = "CYCLE_DETECTED" THEN <<>>
               ELSE (IF cfg.maxNetworkSize # 0 THEN <<"getNetworkStats">> ELSE <<>>) \o
                    IF kind = "NETWORK_SIZE_LIMIT" THEN <<>>
                    ELSE (IF cfg.maxReferralsPerUser # 0
                          THEN <<"getDirectReferrals">> ELSE <<>>) \o
                         IF kind = "REFERRAL_LIMIT" THEN <<>>
                         ELSE <<"addReferral">>

\* the one storage call of an operation that tests its identifier first
GuardedStorageCall(user, call) == IF IsValidUserId(user) THEN <<call>> ELSE <<>>

\* the storage calls an operation of the network makes, in order, when none
\* of them raises: ensureInitialized calls initialize on a network that is
\* not initialized yet
StorageCallsOf(op, a, b) ==
  (IF isInitialized THEN <<>> ELSE <<"initialize">>) \o
  CASE op = "addReferral"     -> AddReferralStorageCalls(config, Ensured, a, b)
    [] op = "directReferrals" -> GuardedStorageCall(a, "getDirectReferrals")
    [] op = "allReferrals"    -> GuardedStorageCall(a, "getAllReferrals")
    [] op = "getParent"       -> GuardedStorageCall(a, "getParent")
    [] op = "userExists"      -> GuardedStorageCall(a, "userExists")
    [] op = "removeUser"      -> GuardedStorageCall(a, "removeUser")
    [] op = "getAllUsers"     -> <<"getAllUsers">>
    [] op = "getNetworkStats" -> <<"getNetworkStats">>
    [] op = "clear"           -> <<"clear">>

\* a try block that starts after `await this.ensureInitialized()`
InsideTryAfterInitialization(call) == call # "initialize"

\* try { ... } catch: every storage call of an operation, the one of
\* ensureInitialized included, is made inside its try block
InsideTry(call) == TRUE

\* An operation during which the storage raises at the n-th call made to it:
\* the calls before it have returned, the call itself and the rest of the
\* operation have no effect, and the catch block builds the result.
Raise(op, a, b, n) ==
  LET trace       == StorageCallsOf(op, a, b)
      initialized == isInitialized \/ n > 1
      st          == IF initialized THEN Ensured
                     ELSE [users |-> users, referrals |-> referrals]
  IN /\ n \in 1..Len(trace)
     /\ users' = st.users
     /\ referrals' = st.referrals
     /\ isInitialized' = initialized
     /\ storageInitialized' = (storageInitialized \/ initialized)
     /\ lastCall' = [op |-> op, a |-> a, b |-> b]
     /\ result' = [kind |-> IF InsideTry(trace[n]) THEN "STORAGE_ERROR" ELSE "THROWN",
                   data |-> <<>>]
     /\ raised' = trace[n]
     /\ UNCHANGED <<config, now, observed, calls>>

\* the operations of the network that take one identifier, and those that
\* take none
UserOps == {"directReferrals", "allReferrals", "getParent", "userExists", "removeUser"}

PlainOps == {"getAllUsers", "getNetworkStats", "clear"}

-----------------------------------------------------------------------------
(* influence.ts *)

\* the default of the parameter k
DefaultK == 5

\* the largest k a caller passes
MaxK == 3

\* The argument k of a ranking call: <<>> when omitted, <<n>> when given.
KArgs == { <<>> } \cup { <<n>> : n \in -1..MaxK }

\* an omitted k bound to more users than a network here holds
BindKToAll(kArg) == IF kArg = <<>> THEN 2 * DefaultK ELSE kArg[1]

\* `k: number = 5`: the default parameter binds an omitted k. After it k is a
\* number, so the branch `k === undefined` of the body is never taken.
BindK(kArg) == IF kArg = <<>> THEN DefaultK ELSE kArg[1]

CharRank(ch) ==
  CASE ch = " " -> 0
    [] ch = ":" -> 1
    [] ch = "a" -> 2
    [] ch = "b" -> 3
    [] ch = "c" -> 4
    [] ch = "d" -> 5
    [] ch = "e" -> 6
    [] ch = "f" -> 7
    [] OTHER -> 8

RECURSIVE LocaleCompare(_, _)
\* String.prototype.localeCompare on the modelled characters (blank, then
\* punctuation, then the letters in alphabetical order), one character after
\* the other: negative, zero or positive
LocaleCompare(x, y) ==
  IF x = <<>> /\ y = <<>> THEN 0
  ELSE IF x = <<>> THEN -1
  ELSE IF y = <<>> THEN 1
  ELSE IF CharRank(Head(x)) < CharRank(Head(y)) THEN -1
  ELSE IF CharRank(Head(x)) > CharRank(Head(y)) THEN 1
  ELSE LocaleCompare(Tail(x), Tail(y))

\* slice(0, k) for k >= 0
Slice(s, k) == SubSeq(s, 1, IF k < Len(s) THEN k ELSE Len(s))

\* map(pair => pair.userId)
UserIdsOfPairs(pairs) == [i \in 1..Len(pairs) |-> pairs[i].userId]

\* calculateReach: the number it returns, or that it throws
CalculateReach(st, user) ==
  LET r == NetAllReferrals(st, user)
  IN IF r.kind # "OK" THEN [thrown |-> TRUE, value |-> 0]
     ELSE [thrown |-> FALSE, value |-> Len(r.data)]

RECURSIVE ReachPairs(_, _, _)
\* the for loop of topKByReach over allUsers from user i on: a user whose
\* reach throws is skipped
ReachPairs(st, allUsers, i) ==
  IF i > Len(allUsers) THEN <<>>
  ELSE LET reach == CalculateReach(st, allUsers[i].userId)
       IN IF reach.thrown THEN ReachPairs(st, allUsers, i + 1)
          ELSE <<[userId |-> allUsers[i].userId, reach |-> reach.value]>>
               \o ReachPairs(st, allUsers, i + 1)

\* the comparator with the names compared the other way round
CompareReachNamesDescending(a, b) ==
  IF a.reach # b.reach THEN b.reach - a.reach
  ELSE LocaleCompare(b.userId, a.userId)

\* the comparator of topKByReach
CompareReach(a, b) ==
  IF a.reach # b.reach THEN b.reach - a.reach
  ELSE LocaleCompare(a.userId, b.userId)

RECURSIVE InsertByReach(_, _)
\* x goes behind every element that does not compare greater than it
InsertByReach(sorted, x) ==
  IF sorted = <<>> THEN <<x>>
  ELSE IF CompareReach(Head(sorted), x) > 0 THEN <<x>> \o sorted
       ELSE <<Head(sorted)>> \o InsertByReach(Tail(sorted), x)

RECURSIVE SortByReach(_, _)
\* Array.prototype.sort with CompareReach: a stable sort, here by insertion
\* of the elements from i on into the sorted prefix `acc`
SortByReach(pairs, acc) ==
  IF pairs = <<>> THEN acc
  ELSE SortByReach(Tail(pairs), InsertByReach(acc, Head(pairs)))

\* topKByReach(network, k)
TopKByReach(st, kArg) ==
  LET k == BindK(kArg)
      allUsers == NetGetAllUsers(st).data
  IN IF k < 0 THEN [kind |-> "THROWN", data |-> <<>>]
     ELSE IF k = 0 \/ Len(allUsers) = 0 THEN [kind |-> "OK", data |-> <<>>]
     ELSE [kind |-> "OK",
           data |-> UserIdsOfPairs(Slice(SortByReach(ReachPairs(st, allUsers, 1), <<>>), k))]

\* network.allReferrals(user) on a storage whose getAllReferrals raises for
\* the users in `failing`: the catch of allReferrals answers STORAGE_ERROR
NetAllReferralsFailing(st, user, failing) ==
  IF user \in failing /\ IsValidUserId(user)
  THEN [kind |-> "STORAGE_ERROR", data |-> <<>>]
  ELSE NetAllReferrals(st, user)

\* calculateReach on that storage: `throw result.error` on a failure
CalculateReachFailing(st, user, failing) ==
  LET r == NetAllReferralsFailing(st, user, failing)
  IN IF r.kind # "OK" THEN [thrown |-> TRUE, value |-> 0]
     ELSE [thrown |-> FALSE, value |-> Len(r.data)]

RECURSIVE ReachPairsKeepingFailed(_, _, _, _)
\* the loop without the skip: a user whose reach throws is ranked with reach 0
ReachPairsKeepingFailed(st, allUsers, i, failing) ==
  IF i > Len(allUsers) THEN <<>>
  ELSE LET reach == CalculateReachFailing(st, allUsers[i].userId, failing)
       IN <<[userId |-> allUsers[i].userId, reach |-> reach.value]>>
          \o ReachPairsKeepingFailed(st, allUsers, i + 1, failing)

RECURSIVE ReachPairsFailing(_, _, _, _)
\* the for loop of topKByReach over allUsers from user i on, with its
\* try/catch: a user whose reach throws is skipped (console.warn, no push)
ReachPairsFailing(st, allUsers, i, failing) ==
  IF i > Len(allUsers) THEN <<>>
  ELSE LET reach == CalculateReachFailing(st, allUsers[i].userId, failing)
       IN IF reach.thrown THEN ReachPairsFailing(st, allUsers, i + 1, failing)
          ELSE <<[userId |-> allUsers[i].userId, reach |-> reach.value]>>
               \o ReachPairsFailing(st, allUsers, i + 1, failing)

\* network.getAllUsers() on a storage whose getAllUsers raises when
\* `usersFail`: the catch of getAllUsers answers STORAGE_ERROR
NetGetAllUsersFailing(st, usersFail) ==
  IF usersFail THEN [kind |-> "STORAGE_ERROR", data |-> <<>>]
  ELSE NetGetAllUsers(st)

\* topKByReach(network, k) on that storage: `throw allUsersResult.error`
\* when getAllUsers failed, the loop skipping the users whose lookup failed
TopKByReachFailing(st, kArg, failing, usersFail) ==
  LET k == BindK(kArg)
      allUsersResult == NetGetAllUsersFailing(st, usersFail)
      allUsers == allUsersResult.data
  IN IF k < 0 THEN [kind |-> "THROWN", data |-> <<>>]
     ELSE IF allUsersResult.kind # "OK" THEN [kind |-> "THROWN", data |-> <<>>]
     ELSE IF k = 0 \/ Len(allUsers) = 0 THEN [kind |-> "OK", data |-> <<>>]
     ELSE [kind |-> "OK",
           data |-> UserIdsOfPairs(Slice(SortByReach(
                      ReachPairsFailing(st, allUsers, 1, failing), <<>>), k))]

RECURSIVE ShortestPathChildren(_, _, _, _, _, _)
\* the for loop of findShortestPath over the children of the dequeued user,
\* from child i on: [path, queue, visited], path non-empty when it returned
ShortestPathChildren(children, i, path, target, queue, visited) ==
  IF i > Len(children) THEN [path |-> <<>>, queue |-> queue, visited |-> visited]
  ELSE IF children[i] = target
       THEN [path |-> Append(path, children[i]), queue |-> queue, visited |-> visited]
       ELSE IF children[i] \notin visited
            THEN ShortestPathChildren(children, i + 1, path, target,
                   Append(queue, [userId |-> children[i],
                                  path |-> Append(path, children[i])]),
                   visited \cup {children[i]})
            ELSE ShortestPathChildren(children, i + 1, path, target, queue, visited)

RECURSIVE ShortestPathLoop(_, _, _, _)
\* the while loop of findShortestPath; <<>> stands for null
ShortestPathLoop(st, queue, visited, target) ==
  IF queue = <<>> THEN <<>>
  ELSE LET head == Head(queue)
           rest == Tail(queue)
           directReferralsResult == NetDirectReferrals(st, head.userId)
       IN IF directReferralsResult.kind # "OK"
          THEN ShortestPathLoop(st, rest, visited, target)
          ELSE LET r == ShortestPathChildren(directReferralsResult.data, 1, head.path,
                                             target, rest, visited)
               IN IF r.path # <<>> THEN r.path
                  ELSE ShortestPathLoop(st, r.queue, r.visited, target)

\* findShortestPath: the path, or <<>> for null
FindShortestPath(st, source, target) ==
  IF source = target THEN <<source>>
  ELSE ShortestPathLoop(st, <<[userId |-> source, path |-> <<source>>]>>, {source}, target)

\* every path of more than two nodes taken to go through the user
OnMiddleOfAny(path, user) == Len(path) > 2

\* path.slice(1, -1).includes(user), for a path of more than two nodes
OnMiddle(path, user) == \E i \in 2..(Len(path) - 1) : path[i] = user

RECURSIVE FlowCount(_, _, _, _, _)
\* the two nested loops of calculateFlowCentrality, at the pair
\* (allUsers[si], allUsers[ti]): the pairs counted from there on
FlowCount(st, allUsers, user, si, ti) ==
  IF si > Len(allUsers) THEN 0
  ELSE IF allUsers[si] = user \/ ti > Len(allUsers)
       THEN FlowCount(st, allUsers, user, si + 1, 1)
  ELSE IF allUsers[ti] = user \/ allUsers[ti] = allUsers[si]
       THEN FlowCount(st, allUsers, user, si, ti + 1)
  ELSE LET path == FindShortestPath(st, allUsers[si], allUsers[ti])
       IN (IF Len(path) > 2 /\ OnMiddle(path, user) THEN 1 ELSE 0)
          + FlowCount(st, allUsers, user, si, ti + 1)

\* calculateFlowCentrality
CalculateFlowCentrality(st, user) ==
  LET r == NetGetAllUsers(st)
  IN IF r.kind # "OK" THEN [thrown |-> TRUE, value |-> 0]
     ELSE [thrown |-> FALSE,
           value |-> FlowCount(st, [i \in 1..Len(r.data) |-> r.data[i].userId], user, 1, 1)]

RECURSIVE FlowPairs(_, _, _)
\* the for loop of topKByFlowCentrality over allUsers from user i on
FlowPairs(st, allUsers, i) ==
  IF i > Len(allUsers) THEN <<>>
  ELSE LET fc == CalculateFlowCentrality(st, allUsers[i].userId)
       IN IF fc.thrown THEN FlowPairs(st, allUsers, i + 1)
          ELSE <<[userId |-> allUsers[i].userId, flowCentrality |-> fc.value]>>
               \o FlowPairs(st, allUsers, i + 1)

\* the comparator looking at the names only
CompareFlowNamesOnly(a, b) == LocaleCompare(a.userId, b.userId)

\* the comparator of topKByFlowCentrality
CompareFlow(a, b) ==
  IF a.flowCentrality # b.flowCentrality THEN b.flowCentrality - a.flowCentrality
  ELSE LocaleCompare(a.userId, b.userId)

RECURSIVE InsertByFlow(_, _)
InsertByFlow(sorted, x) ==
  IF sorted = <<>> THEN <<x>>
  ELSE IF CompareFlow(Head(sorted), x) > 0 THEN <<x>> \o sorted
       ELSE <<Head(sorted)>> \o InsertByFlow(Tail(sorted), x)

RECURSIVE SortByFlow(_, _)
\* Array.prototype.sort with CompareFlow, stable
SortByFlow(pairs, acc) ==
  IF pairs = <<>> THEN acc
  ELSE SortByFlow(Tail(pairs), InsertByFlow(acc, Head(pairs)))

\* topKByFlowCentrality(network, k)
TopKByFlowCentrality(st, kArg) ==
  LET k == BindK(kArg)
      allUsers == NetGetAllUsers(st).data
  IN IF k < 0 THEN [kind |-> "THROWN", data |-> <<>>]
     ELSE IF k = 0 \/ Len(allUsers) = 0 THEN [kind |-> "OK", data |-> <<>>]
     ELSE [kind |-> "OK",
           data |-> UserIdsOfPairs(Slice(SortByFlow(FlowPairs(st, allUsers, 1), <<>>), k))]

\* a caller running topKByReach on the network: the reads it makes go
\* through ensureInitialized, the store is not written
CallTopKByReach(kArg) ==
  LET st == Ensured
  IN /\ users' = st.users
     /\ referrals' = st.referrals
     /\ isInitialized' = TRUE
     /\ storageInitialized' = TRUE
     /\ lastCall' = [op |-> "topKByReach", a |-> kArg, b |-> <<>>]
     /\ result' = TopKByReach(st, kArg)
     /\ raised' = NoFault
     /\ UNCHANGED <<config, now, observed, calls>>

\* topKByReach(network, k) while the storage raises in getAllReferrals for
\* the users in `failing` and, when `usersFail`, in getAllUsers
CallTopKByReachFailing(kArg, failing, usersFail) ==
  LET st == Ensured
  IN /\ failing \subseteq UserIdsOf(st.users)
     /\ users' = st.users
     /\ referrals' = st.referrals
     /\ isInitialized' = TRUE
     /\ storageInitialized' = TRUE
     /\ lastCall' = [op |-> "topKByReach", a |-> kArg,
                     b |-> [failing |-> failing, usersFail |-> usersFail]]
     /\ result' = TopKByReachFailing(st, kArg, failing, usersFail)
     /\ raised' = IF BindK(kArg) < 0 THEN NoFault
                  ELSE IF usersFail THEN "getAllUsers"
                  ELSE IF failing # {} /\ BindK(kArg) > 0 THEN "getAllReferrals"
                  ELSE NoFault
     /\ UNCHANGED <<config, now, observed, calls>>

\* a caller running topKByFlowCentrality on the network
CallTopKByFlowCentrality(kArg) ==
  LET st == Ensured
  IN /\ users' = st.users
     /\ referrals' = st.referrals
     /\ isInitialized' = TRUE
     /\ storageInitialized' = TRUE
     /\ lastCall' = [op |-> "topKByFlowCentrality", a |-> kArg, b |-> <<>>]
     /\ result' = TopKByFlowCentrality(st, kArg)
     /\ raised' = NoFault
     /\ UNCHANGED <<config, now, observed, calls>>

-----------------------------------------------------------------------------

\* The graph the store records, seen from its three places:
\* the edges of the direct-referral lists
ChildEdges ==
  UNION { { <<users[i].userId, users[i].directReferrals[j]>> :
              j \in 1..Len(users[i].directReferrals) } : i \in 1..Len(users) }

\* the edges of the parent fields
ParentEdges ==
  { <<users[i].parent, users[i].userId>> :
      i \in { j \in 1..Len(users) : users[j].parent # None } }

\* the edges of the referrals map
RecordedEdges ==
  { <<referrals[k].referrer, referrals[k].candidate>> : k \in DOMAIN referrals }

StoredEdges == ChildEdges \cup ParentEdges \cup RecordedEdges

\* the callers that may have an addReferral call in flight at the same time
Callers == 1..2

\* a caller with no call in flight
IdleCall ==
  [pc |-> "idle", referrer |-> <<>>, candidate |-> <<>>, initializing |-> FALSE,
   existingParent |-> None, wouldCreateCycle |-> FALSE, count |-> 0, kind |-> "NONE"]

NoCalls == [i \in Callers |-> IdleCall]

Init ==
  /\ users = <<>>
  /\ referrals = << >>
  /\ storageInitialized = FALSE
  /\ isInitialized = FALSE
  /\ config = DefaultConfig
  /\ now = 0
  /\ lastCall = [op |-> "new", a |-> <<>>, b |-> <<>>]
  /\ result = [kind |-> "OK", data |-> <<>>]
  /\ observed = <<>>
  /\ calls = NoCalls
  /\ raised = NoFault

\* the capacity limits a network is configured with in SpecLimits
NetworkSizeLimit == 3

ReferralLimit == 2

\* the default structural rules, with or without each capacity limit
LimitConfigs ==
  { [DefaultConfig EXCEPT !.maxNetworkSize = n, !.maxReferralsPerUser = m] :
      n \in {0, NetworkSizeLimit}, m \in {0, ReferralLimit} }

\* new ReferralNetwork(config) for a config of LimitConfigs
InitLimits ==
  /\ users = <<>>
  /\ referrals = << >>
  /\ storageInitialized = FALSE
  /\ isInitialized = FALSE
  /\ config \in LimitConfigs
  /\ now = 0
  /\ lastCall = [op |-> "new", a |-> <<>>, b |-> <<>>]
  /\ result = [kind |-> "OK", data |-> <<>>]
  /\ observed = <<>>
  /\ calls = NoCalls
  /\ raised = NoFault

\* Calls of addReferral, with any identifiers, on a network of the default
\* configuration.
Next ==
  \/ \E r, c \in AllIds : AddReferral(r, c)

Spec == Init /\ [][Next]_vars

\* The same calls on a network constructed with capacity limits.
SpecLimits == InitLimits /\ [][Next]_vars

\* Calls of addReferral between users whose names hold a colon.
NextColon ==
  \/ \E r, c \in ColonIds : AddReferral(r, c)

SpecColon == Init /\ [][NextColon]_vars

\* Calls of addReferral and removeUser between the same users.
NextRemove ==
  \/ \E p \in ColonPairs : AddReferral(p[1], p[2])
  \/ \E u \in ColonIds : RemoveUser(u)

SpecRemove == Init /\ [][NextRemove]_vars

\* Accepted and rejected referrals between named users, and the reads and
\* rankings a caller makes in between.
NextReads ==
  \/ \E r, c \in UserIds : AddReferral(r, c)
  \/ \E u \in AllIds : AllReferrals(u)
  \/ \E kArg \in KArgs : CallTopKByReach(kArg)
  \/ \E kArg \in KArgs : CallTopKByFlowCentrality(kArg)

SpecReads == Init /\ [][NextReads]_vars

\* the users of the networks constructed with other structural rules
ToggleIds == { <<"a">>, <<"b">>, <<"c">>, <<"d">> }

\* the referrals made between them: a chain, the edge that closes three of
\* its users into a cycle, a second referrer for one, and a self-referral
TogglePairs ==
  { << <<"a">>, <<"b">> >>, << <<"b">>, <<"c">> >>, << <<"c">>, <<"d">> >>,
    << <<"c">>, <<"a">> >>, << <<"a">>, <<"c">> >>, << <<"b">>, <<"b">> >> }

\* every choice of the three structural rules, no capacity limit
ToggleConfigs ==
  { [DefaultConfig EXCEPT !.allowSelfReferrals = s, !.allowMultipleReferrers = m,
                          !.allowCycles = c] : s, m, c \in BOOLEAN }

\* new ReferralNetwork(config) for a config of ToggleConfigs
InitToggles ==
  /\ users = <<>>
  /\ referrals = << >>
  /\ storageInitialized = FALSE
  /\ isInitialized = FALSE
  /\ config \in ToggleConfigs
  /\ now = 0
  /\ lastCall = [op |-> "new", a |-> <<>>, b |-> <<>>]
  /\ result = [kind |-> "OK", data |-> <<>>]
  /\ observed = <<>>
  /\ calls = NoCalls
  /\ raised = NoFault

\* Calls of addReferral and removeUser on a network of any structural rules.
NextToggles ==
  \/ \E p \in TogglePairs : AddReferral(p[1], p[2])
  \/ \E u \in ToggleIds : RemoveUser(u)

SpecToggles == InitToggles /\ [][NextToggles]_vars

\* the referrals of the runs whose rankings are compared: two users referred
\* by the first one, and a fourth user referred by each of the two
RunPairs ==
  { << <<"a">>, <<"b">> >>, << <<"a">>, <<"c">> >>,
    << <<"b">>, <<"d">> >>, << <<"c">>, <<"d">> >> }

\* the k of the rankings that are compared
RunKArgs == { <<>>, <<1>> }

\* new ReferralNetwork({ allowMultipleReferrers: true })
InitMultipleReferrers ==
  /\ users = <<>>
  /\ referrals = << >>
  /\ storageInitialized = FALSE
  /\ isInitialized = FALSE
  /\ config = [DefaultConfig EXCEPT !.allowMultipleReferrers = TRUE]
  /\ now = 0
  /\ lastCall = [op |-> "new", a |-> <<>>, b |-> <<>>]
  /\ result = [kind |-> "OK", data |-> <<>>]
  /\ observed = <<>>
  /\ calls = NoCalls
  /\ raised = NoFault

\* The caller keeps the ranking that has just been returned, together with
\* the users and the edges of the network it was made on.
Remember ==
  /\ lastCall.op \in {"topKByReach", "topKByFlowCentrality"}
  /\ observed = <<>>
  /\ observed' = << [op |-> lastCall.op, k |-> lastCall.a, result |-> result,
                     users |-> UserIdsOf(users),
                     lists |-> ChildEdges, parents |-> ParentEdges,
                     relationships |-> RecordedEdges] >>
  /\ UNCHANGED <<users, referrals, storageInitialized, isInitialized, config, now,
                 lastCall, result, calls, raised>>

-----------------------------------------------------------------------------
(* addReferral calls in flight together: a call runs from one await to the
   next without interruption, and at an await any other call may run *)

\* InMemoryStorage.addReferral up to its first await: the relationship is
\* set and addUser(referrer) has run
StorageAddReferralSet(st, referrer, candidate, createdAt) ==
  LET referralKey == ReferralKey(referrer, candidate)
      refs == [k \in DOMAIN st.referrals \cup {referralKey} |->
                 IF k = referralKey
                 THEN [referrer |-> referrer, candidate |-> candidate,
                       createdAt |-> createdAt]
                 ELSE st.referrals[k]]
  IN [users |-> StorageAddUser(st.users, referrer, createdAt), referrals |-> refs]

\* InMemoryStorage.addReferral after `await this.addUser(candidate)`: the
\* candidate joins the referrer's list and gets its parent
StorageAddReferralLink(us, referrer, candidate) ==
  LET ri  == IndexOf(us, referrer)
      us2 == IF Includes(us[ri].directReferrals, candidate) THEN us
             ELSE [us EXCEPT ![ri].directReferrals = Append(@, candidate)]
      ci  == IndexOf(us2, candidate)
  IN [us2 EXCEPT ![ci].parent = referrer]

\* the call returns a result of this kind
Returned(c, kind) == [IdleCall EXCEPT !.pc = "done", !.kind = kind]

\* validateReferralConstraints from its check number `from` on: the call
\* makes the next storage read its configuration asks for, on the users and
\* relationships of that moment, and awaits it
Advance(c, st, from) ==
  IF from <= 1 /\ ~config.allowMultipleReferrers
  THEN [c EXCEPT !.pc = "getParent",
                 !.existingParent = StorageGetParent(st.users, c.candidate)]
  ELSE IF from <= 2 /\ ~config.allowCycles
  THEN [c EXCEPT !.pc = "wouldCreateCycle",
                 !.wouldCreateCycle = WouldCreateCycle(st.users, c.referrer, c.candidate)]
  ELSE IF from <= 3 /\ config.maxNetworkSize # 0
  THEN [c EXCEPT !.pc = "getNetworkStats",
                 !.count = StorageGetNetworkStats(st).totalUsers]
  ELSE IF from <= 4 /\ config.maxReferralsPerUser # 0
  THEN [c EXCEPT !.pc = "getDirectReferrals",
                 !.count = Len(StorageGetDirectReferrals(st.users, c.referrer))]
  ELSE [c EXCEPT !.pc = "validated"]

\* what a call that is resumed after its await does up to its next await:
\* the call record and the store it leaves
Continued(c, st) ==
  CASE c.pc = "ensureInitialized" ->
         [st |-> st,
          call |-> IF ValidateReferralInput(c.referrer, c.candidate) # "OK"
                   THEN Returned(c, "INVALID_INPUT")
                   ELSE IF ~config.allowSelfReferrals /\ c.referrer = c.candidate
                   THEN Returned(c, "SELF_REFERRAL")
                   ELSE Advance(c, st, 1)]
    [] c.pc = "getParent" ->
         [st |-> st,
          call |-> IF c.existingParent # None /\ c.existingParent # c.referrer
                   THEN Returned(c, "MULTIPLE_REFERRERS")
                   ELSE Advance(c, st, 2)]
    [] c.pc = "wouldCreateCycle" ->
         [st |-> st,
          call |-> IF c.wouldCreateCycle THEN Returned(c, "CYCLE_DETECTED")
                   ELSE Advance(c, st, 3)]
    [] c.pc = "getNetworkStats" ->
         [st |-> st,
          call |-> IF c.count >= config.maxNetworkSize
                   THEN Returned(c, "NETWORK_SIZE_LIMIT")
                   ELSE Advance(c, st, 4)]
    [] c.pc = "getDirectReferrals" ->
         [st |-> st,
          call |-> IF c.count >= config.maxReferralsPerUser
                   THEN Returned(c, "REFERRAL_LIMIT")
                   ELSE Advance(c, st, 5)]
    [] c.pc = "validated" ->
         [st |-> StorageAddReferralSet(st, c.referrer, c.candidate, now),
          call |-> [c EXCEPT !.pc = "addUser(referrer)"]]
    [] c.pc = "addUser(referrer)" ->
         [st |-> [st EXCEPT !.users = StorageAddUser(@, c.candidate, now)],
          call |-> [c EXCEPT !.pc = "addUser(candidate)"]]
    [] c.pc = "addUser(candidate)" ->
         [st |-> [st EXCEPT !.users = StorageAddReferralLink(@, c.referrer, c.candidate)],
          call |-> Returned(c, "OK")]

\* Caller i calls addReferral: the call runs up to `await
\* this.storage.initialize()` on a network that is not initialized, where
\* storage.initialize has run, and up to `await this.ensureInitialized()` on
\* one that is.
Begin(i, referrer, candidate) ==
  LET st == IF isInitialized THEN [users |-> users, referrals |-> referrals]
            ELSE InitializedStore([users |-> users, referrals |-> referrals],
                                  storageInitialized)
  IN /\ calls[i].pc \in {"idle", "done"}
     /\ calls' = [calls EXCEPT ![i] =
                    [IdleCall EXCEPT !.pc = "ensureInitialized",
                                     !.referrer = referrer, !.candidate = candidate,
                                     !.initializing = ~isInitialized]]
     /\ users' = st.users
     /\ referrals' = st.referrals
     /\ storageInitialized' = TRUE
     /\ UNCHANGED <<isInitialized, config, now, lastCall, result, observed, raised>>

\* The call of caller i is resumed after the await it stands at and runs to
\* its next await, or to its end.
Resume(i) ==
  LET c    == calls[i]
      next == Continued(c, [users |-> users, referrals |-> referrals])
  IN /\ c.pc \notin {"idle", "done"}
     /\ calls' = [calls EXCEPT ![i] = next.call]
     /\ users' = next.st.users
     /\ referrals' = next.st.referrals
     /\ isInitialized' = (isInitialized \/ c.initializing)
     /\ IF next.call.pc = "done"
        THEN /\ lastCall' = [op |-> "addReferral", a |-> c.referrer, b |-> c.candidate]
             /\ result' = [kind |-> next.call.kind, data |-> <<>>]
        ELSE UNCHANGED <<lastCall, result>>
     /\ raised' = NoFault
     /\ UNCHANGED <<storageInitialized, config, now, observed>>

InFlightPairs == {<<<<"a">>, <<"b">>>>, <<<<"b">>, <<"a">>>>, <<<<"c">>, <<"b">>>>,
                  <<<<"a">>, <<"a">>>>, <<<<" ">>, <<"a">>>>}

\* Two callers whose addReferral calls interleave at every await.
NextInFlight ==
  \/ \E i \in Callers : \E p \in InFlightPairs : Begin(i, p[1], p[2])
  \/ \E i \in Callers : Resume(i)

SpecInFlight == InitLimits /\ [][NextInFlight]_vars

\* the latest time the clock is let to reach
MaxNow == 2

\* Time passes between two calls: the next `new Date()` reads a later time.
Tick ==
  /\ now < MaxNow
  /\ now' = now + 1
  /\ UNCHANGED <<users, referrals, storageInitialized, isInitialized, config,
                 lastCall, result, observed, calls, raised>>

ClockPairs == {<<<<"a">>, <<"b">>>>, <<<<"b">>, <<"c">>>>, <<<<"a">>, <<"c">>>>,
               <<<<"c">>, <<"a">>>>}

\* Calls of addReferral at different times, on a network of the default
\* configuration.
NextClock ==
  \/ \E p \in ClockPairs : AddReferral(p[1], p[2])
  \/ Tick

SpecClock == Init /\ [][NextClock]_vars

CapPairs == {<<<<"a">>, <<"b">>>>, <<<<"a">>, <<"c">>>>, <<<<"a">>, <<"d">>>>,
             <<<<"b">>, <<"c">>>>, <<<<"c">>, <<"d">>>>, <<<<"b">>, <<"a">>>>}

\* Calls of addReferral and removeUser on a network constructed with
\* capacity limits.
NextCaps ==
  \/ \E p \in CapPairs : AddReferral(p[1], p[2])
  \/ \E u \in UserIds : RemoveUser(u)

SpecCaps == InitLimits /\ [][NextCaps]_vars

UnlinkPairs == {<<<<"a">>, <<"b">>>>, <<<<"b">>, <<"c">>>>, <<<<"c">>, <<"b">>>>,
                <<<<"c">>, <<"a">>>>, <<<<"a">>, <<"d">>>>}

\* Calls of addReferral on a network of the default configuration and of
\* removeReferral on its storage.
NextUnlink ==
  \/ \E p \in UnlinkPairs : AddReferral(p[1], p[2])
  \/ \E p \in UnlinkPairs : RemoveReferral(p[1], p[2])

SpecUnlink == Init /\ [][NextUnlink]_vars

ConfigPairs == {<<<<"a">>, <<"b">>>>, <<<<"b">>, <<"a">>>>, <<<<"c">>, <<"b">>>>,
                <<<<"b">>, <<"c">>>>, <<<<"a">>, <<"a">>>>}

\* the partial configurations updateConfig is called with
PartialConfigs ==
  { [allowSelfReferrals |-> v] : v \in BOOLEAN } \cup
  { [allowMultipleReferrers |-> v] : v \in BOOLEAN } \cup
  { [allowCycles |-> v] : v \in BOOLEAN } \cup
  { [allowSelfReferrals |-> v, allowCycles |-> v] : v \in BOOLEAN }

\* Calls of addReferral between calls of updateConfig.
NextConfig ==
  \/ \E p \in ConfigPairs : AddReferral(p[1], p[2])
  \/ \E newConfig \in PartialConfigs : UpdateConfig(newConfig)

SpecConfig == Init /\ [][NextConfig]_vars

\* the referrals of the networks ranked while lookups fail
BestEffortPairs == {<<<<"a">>, <<"b">>>>, <<<<"b">>, <<"c">>>>, <<<<"d">>, <<"a">>>>,
                    <<<<"e">>, <<"c">>>>}

\* Calls of addReferral, and rankings by reach during which the storage
\* raises in the lookups of some users or in getAllUsers.
NextBestEffort ==
  \/ \E p \in BestEffortPairs : AddReferral(p[1], p[2])
  \/ \E kArg \in KArgs : \E failing \in SUBSET UserIdsOf(users) :
       \E usersFail \in BOOLEAN : CallTopKByReachFailing(kArg, failing, usersFail)

SpecBestEffort == Init /\ [][NextBestEffort]_vars

FaultIds == {<<"a">>, <<"b">>, <<"c">>, <<" ">>}

FaultPairs == {<<<<"a">>, <<"b">>>>, <<<<"b">>, <<"c">>>>, <<<<"c">>, <<"a">>>>,
               <<<<"a">>, <<"c">>>>, <<<<"a">>, <<"a">>>>, <<<<" ">>, <<"a">>>>}

\* Calls on a network, with or without capacity limits, whose storage may
\* raise at any call made to it.
NextFaults ==
  \/ \E p \in FaultPairs : AddReferral(p[1], p[2])
  \/ \E u \in FaultIds : RemoveUser(u)
  \/ \E p \in FaultPairs :
       \E n \in 1..Len(StorageCallsOf("addReferral", p[1], p[2])) :
         Raise("addReferral", p[1], p[2], n)
  \/ \E op \in UserOps, u \in FaultIds :
       \E n \in 1..Len(StorageCallsOf(op, u, <<>>)) : Raise(op, u, <<>>, n)
  \/ \E op \in PlainOps :
       \E n \in 1..Len(StorageCallsOf(op, <<>>, <<>>)) : Raise(op, <<>>, <<>>, n)

SpecFaults == InitLimits /\ [][NextFaults]_vars

\* Runs that build a network, rank it, clear it and build it again, in
\* whatever order the referrals come.
NextRuns ==
  \/ \E p \in RunPairs : AddReferral(p[1], p[2])
  \/ Clear
  \/ \E kArg \in RunKArgs : CallTopKByReach(kArg)
  \/ \E kArg \in RunKArgs : CallTopKByFlowCentrality(kArg)
  \/ Remember

\* under the default configuration
SpecRuns == Init /\ [][NextRuns]_vars

\* on a network that lets a user have several referrers
SpecRunsMultipleReferrers == InitMultipleReferrers /\ [][NextRuns]_vars

\* the referrals of the runs that read the network in between
QueryPairs ==
  { << <<"a">>, <<"b">> >>, << <<"b">>, <<"c">> >>, << <<"a">>, <<"d">> >>,
    << <<"c">>, <<"a">> >> }

\* Referrals, removals and a clear, and every read and ranking of the
\* network in between, with names, with blank identifiers and with every k.
NextQueries ==
  \/ \E p \in QueryPairs : AddReferral(p[1], p[2])
  \/ \E u \in UserIds : RemoveUser(u)
  \/ Clear
  \/ \E u \in AllIds : DirectReferrals(u)
  \/ \E u \in AllIds : AllReferrals(u)
  \/ \E u \in AllIds : GetParent(u)
  \/ \E u \in AllIds : UserExists(u)
  \/ GetAllUsers
  \/ GetNetworkStats
  \/ \E kArg \in KArgs : CallTopKByReach(kArg)
  \/ \E kArg \in KArgs : CallTopKByFlowCentrality(kArg)

SpecQueries == Init /\ [][NextQueries]_vars

\* A network of up to six users built referral by referral, and the
\* rankings a caller makes in between.
NextRank ==
  \/ \E p \in RankPairs : AddReferral(p[1], p[2])
  \/ \E kArg \in KArgs : CallTopKByReach(kArg)
  \/ \E kArg \in KArgs : CallTopKByFlowCentrality(kArg)

SpecRank == Init /\ [][NextRank]_vars

-----------------------------------------------------------------------------
(* Reachability over a set of edges *)

Targets(E, S) == { e[2] : e \in { x \in E : x[1] \in S } }

RECURSIVE Grow(_, _)
Grow(E, S) ==
  LET T == S \cup Targets(E, S) IN IF T = S THEN S ELSE Grow(E, T)

\* what one or more edges of E lead to from u
Descendants(E, u) == Grow(E, Targets(E, {u}))

Endpoints(E) == { e[1] : e \in E } \cup { e[2] : e \in E }

NoSelfLoop(E) == \A e \in E : e[1] # e[2]

AtMostOneIncoming(E) == \A e, f \in E : e[2] = f[2] => e[1] = f[1]

Acyclic(E) == \A u \in Endpoints(E) : u \notin Descendants(E, u)

IsForest(E) == NoSelfLoop(E) /\ AtMostOneIncoming(E) /\ Acyclic(E)

Count(s, x) == Cardinality({ i \in 1..Len(s) : s[i] = x })

\* the parent field of u, None for an unknown user
RecordedParent(u) == IF Has(users, u) THEN Get(users, u).parent ELSE None

\* the direct-referral list of u, empty for an unknown user
RecordedChildren(u) == IF Has(users, u) THEN Get(users, u).directReferrals ELSE <<>>

\* the relationships a referrals map holds, but for the edge (r, c)
OtherRelationships(refs, r, c) ==
  { rel \in { refs[k] : k \in DOMAIN refs } :
      <<rel.referrer, rel.candidate>> # <<r, c>> }

FailureKinds ==
  { "INVALID_INPUT", "SELF_REFERRAL", "MULTIPLE_REFERRERS", "CYCLE_DETECTED",
    "NETWORK_SIZE_LIMIT", "REFERRAL_LIMIT" }

-----------------------------------------------------------------------------
(* Claims *)

\* C1: under the default configuration, after every sequence of addReferral
\* calls, accepted or rejected, the stored edges (lists, parents and the
\* referrals map alike) have no self-loop, give no user two incoming edges
\* and contain no directed cycle.
C1_ForestInvariant == IsForest(StoredEdges)

\* a rejected call has just returned on a network that holds a forest on
\* all four users
C1_Witness ==
  /\ lastCall.op = "addReferral"
  /\ result.kind \in {"SELF_REFERRAL", "MULTIPLE_REFERRERS", "CYCLE_DETECTED"}
  /\ Cardinality(RecordedEdges) = 3

\* C2: an addReferral call that returns a failure of any of the six kinds
\* leaves the users (with their parents and lists, in their order) and the
\* referrals map as they were; it creates no user. The network stats are
\* computed from these two maps alone, so they are as they were too.
C2_Atomicity ==
  [][(lastCall'.op = "addReferral" /\ result'.kind # "OK")
       => /\ result'.kind \in FailureKinds
          /\ users' = users
          /\ referrals' = referrals]_vars

\* a call that brought a candidate the network does not know was rejected
\* for the size limit, and the candidate was not created
C2_Witness ==
  /\ lastCall.op = "addReferral"
  /\ result.kind = "NETWORK_SIZE_LIMIT"
  /\ Has(users, lastCall.a)
  /\ ~Has(users, lastCall.b)
  /\ Len(users) = NetworkSizeLimit

\* C3: under the default configuration, for valid r # c where c has no
\* parent other than r, addReferral(r, c) fails with CYCLE_DETECTED exactly
\* when child edges lead from c to r before the call, and succeeds otherwise.
C3_CycleCheckExact ==
  [][LET r == lastCall'.a
         c == lastCall'.b
     IN (/\ lastCall'.op = "addReferral"
         /\ IsValidUserId(r) /\ IsValidUserId(c) /\ r # c
         /\ RecordedParent(c) \in {None, r})
          => /\ (result'.kind = "CYCLE_DETECTED") <=> (r \in Descendants(ChildEdges, c))
             /\ (r \notin Descendants(ChildEdges, c)) => (result'.kind = "OK")]_vars

\* a cycle through more than two users was refused: the candidate is an
\* ancestor of the referrer, but not its parent
C3_Witness ==
  /\ lastCall.op = "addReferral"
  /\ result.kind = "CYCLE_DETECTED"
  /\ RecordedParent(lastCall.a) # lastCall.b
  /\ lastCall.a \in Descendants(ChildEdges, lastCall.b)

\* C4: under the default configuration, for valid r # c, addReferral(r, c)
\* fails with MULTIPLE_REFERRERS exactly when c has a recorded parent other
\* than r, whether r is a user or not.
C4_SingleReferrerRule ==
  [][LET r == lastCall'.a
         c == lastCall'.b
     IN (/\ lastCall'.op = "addReferral"
         /\ IsValidUserId(r) /\ IsValidUserId(c) /\ r # c)
          => ((result'.kind = "MULTIPLE_REFERRERS")
                <=> (RecordedParent(c) # None /\ RecordedParent(c) # r))]_vars

\* a referrer the network does not know was refused a candidate that has
\* a referrer
C4_Witness ==
  /\ lastCall.op = "addReferral"
  /\ result.kind = "MULTIPLE_REFERRERS"
  /\ ~Has(users, lastCall.a)
  /\ RecordedParent(lastCall.b) # None

\* C5: after addReferral(r, c) returned success, r and c are users, c is
\* once in r's list, the parent of c is r, the edge (r, c) is recorded; the
\* parent and list of every other user and every other edge are as before,
\* and no other user was created.
C5_AcceptedEdgeEffect ==
  [][(lastCall'.op = "addReferral" /\ result'.kind = "OK")
       => LET r == lastCall'.a
              c == lastCall'.b
          IN /\ Has(users', r) /\ Has(users', c)
             /\ Count(Get(users', r).directReferrals, c) = 1
             /\ Get(users', c).parent = r
             /\ <<r, c>> \in RecordedEdges'
             /\ UserIdsOf(users') = UserIdsOf(users) \cup {r, c}
             /\ \A u \in UserIdsOf(users') \ {r, c} :
                  /\ Has(users, u)
                  /\ Get(users', u).parent = Get(users, u).parent
                  /\ Get(users', u).directReferrals = Get(users, u).directReferrals
             /\ OtherRelationships(referrals', r, c) = OtherRelationships(referrals, r, c)]_vars

\* C6: under the default configuration, addReferral(a, b) called again
\* after it succeeded, whatever addReferral calls came in between, succeeds,
\* b is still once in a's list and the number of edges has not grown. (No
\* call removes an edge here, so b is in a's list exactly when the call had
\* succeeded before.)
C6_IdempotentReAdd ==
  [][LET a == lastCall'.a
         b == lastCall'.b
     IN (lastCall'.op = "addReferral" /\ <<a, b>> \in ChildEdges)
          => /\ result'.kind = "OK"
             /\ Count(Get(users', a).directReferrals, b) = 1
             /\ Cardinality(DOMAIN referrals') = Cardinality(DOMAIN referrals)]_vars

\* the first edge of the network was added again and accepted after a
\* third user had come in by another accepted call
C6_Witness ==
  /\ lastCall.op = "addReferral"
  /\ result.kind = "OK"
  /\ Len(users) >= 3
  /\ users[1].userId = lastCall.a
  /\ users[2].userId = lastCall.b
  /\ Count(users[1].directReferrals, lastCall.b) = 1

\* the store as the operators of the model take it
Store == [users |-> users, referrals |-> referrals]

RECURSIVE PreOrder(_, _)
RECURSIVE PreOrderOfChildren(_, _, _)
\* the users below u in pre-order: each child followed by what is below it,
\* the children in the order of the list; `fuel` bounds the depth
PreOrder(u, fuel) ==
  IF fuel = 0 THEN <<>> ELSE PreOrderOfChildren(RecordedChildren(u), 1, fuel)

PreOrderOfChildren(children, i, fuel) ==
  IF i > Len(children) THEN <<>>
  ELSE <<children[i]>> \o PreOrder(children[i], fuel - 1)
       \o PreOrderOfChildren(children, i + 1, fuel)

NoRepeat(s) == Cardinality(Range(s)) = Len(s)

\* Reach(u): the length of allReferrals(u)
ReachOf(u) == Len(NetAllReferrals(Store, u).data)

RECURSIVE SumOverChildren(_, _)
\* the sum over the children from child i on of 1 + Reach(child)
SumOverChildren(children, i) ==
  IF i > Len(children) THEN 0
  ELSE 1 + CalculateReach(Store, children[i]).value + SumOverChildren(children, i + 1)

\* u comes before v in the ranking by reach: more reach, or the same reach
\* and the smaller name
PrecedesByReach(u, v) ==
  \/ ReachOf(u) > ReachOf(v)
  \/ ReachOf(u) = ReachOf(v) /\ LocaleCompare(u, v) < 0

Min(m, n) == IF m < n THEN m ELSE n

RankingOps == {"topKByReach", "topKByFlowCentrality"}

\* what the ranking of the last call returns for the argument kArg
RankingResult(kArg) ==
  IF lastCall.op = "topKByReach" THEN TopKByReach(Store, kArg)
  ELSE TopKByFlowCentrality(Store, kArg)

\* C7: in every state reached under the default configuration, for every
\* user u, allReferrals(u) holds the users that one or more child edges lead
\* to from u, each once and never u, in pre-order; it is the empty sequence
\* for a user without direct referrals.
C7_AllReferralsPreOrder ==
  \A u \in UserIdsOf(users) :
    LET res == NetAllReferrals(Store, u)
    IN /\ res.kind = "OK"
       /\ Range(res.data) = Descendants(ChildEdges, u)
       /\ NoRepeat(res.data)
       /\ u \notin Range(res.data)
       /\ res.data = PreOrder(u, Len(users) + 1)
       /\ (RecordedChildren(u) = <<>> => res.data = <<>>)

\* C8: in every state reached under the default configuration, for every
\* user u, Reach(u) is the length of allReferrals(u) and the sum over the
\* direct referrals c of u of 1 + Reach(c).
C8_ReachRecurrence ==
  \A u \in UserIdsOf(users) :
    /\ ~CalculateReach(Store, u).thrown
    /\ CalculateReach(Store, u).value = Len(NetAllReferrals(Store, u).data)
    /\ CalculateReach(Store, u).value = SumOverChildren(RecordedChildren(u), 1)

\* C9: topKByReach(network, k) for k >= 1 returns the first min(k, number
\* of users) users in the order reach descending, then userId ascending: no
\* user twice, each returned user before the next, no omitted user before a
\* returned one.
C9_TopKByReachOrder ==
  (lastCall.op = "topKByReach" /\ lastCall.a # <<>> /\ lastCall.a[1] >= 1)
    => /\ result.kind = "OK"
       /\ Len(result.data) = Min(lastCall.a[1], Len(users))
       /\ NoRepeat(result.data)
       /\ Range(result.data) \subseteq UserIdsOf(users)
       /\ \A i, j \in 1..Len(result.data) :
            i < j => PrecedesByReach(result.data[i], result.data[j])
       /\ \A u \in UserIdsOf(users) \ Range(result.data) :
            \A i \in 1..Len(result.data) : ~PrecedesByReach(u, result.data[i])

\* topKByReach(network, 2) on four users left out a user that has the reach
\* of the second one returned: the names broke the tie
C9_Witness ==
  /\ lastCall.op = "topKByReach"
  /\ lastCall.a = <<2>>
  /\ Len(users) = 4
  /\ Len(result.data) = 2
  /\ ReachOf(result.data[1]) > ReachOf(result.data[2])
  /\ \E u \in UserIdsOf(users) \ Range(result.data) :
       ReachOf(u) = ReachOf(result.data[2])

FlowOf(u) ==
  Cardinality({ p \in UserIdsOf(users) \X UserIdsOf(users) :
                  /\ p[1] # p[2] /\ p[1] # u /\ p[2] # u
                  /\ u \in Descendants(ChildEdges, p[1])
                  /\ p[2] \in Descendants(ChildEdges, u) })

\* u comes before v in the ranking by flow centrality
PrecedesByFlow(u, v) ==
  \/ FlowOf(u) > FlowOf(v)
  \/ FlowOf(u) = FlowOf(v) /\ LocaleCompare(u, v) < 0

\* C11: topKByFlowCentrality(network, k) for k >= 1 returns the first
\* min(k, number of users) users in the order flow centrality descending,
\* then userId ascending, the flow centrality of u being the number of
\* ordered pairs (s, t) of distinct users other than u whose shortest path
\* has u as an interior node.
C11_TopKByFlowCentralityOrder ==
  (lastCall.op = "topKByFlowCentrality" /\ lastCall.a # <<>> /\ lastCall.a[1] >= 1)
    => /\ result.kind = "OK"
       /\ Len(result.data) = Min(lastCall.a[1], Len(users))
       /\ NoRepeat(result.data)
       /\ Range(result.data) \subseteq UserIdsOf(users)
       /\ \A u \in UserIdsOf(users) :
            CalculateFlowCentrality(Store, u).value = FlowOf(u)
       /\ \A i, j \in 1..Len(result.data) :
            i < j => PrecedesByFlow(result.data[i], result.data[j])
       /\ \A u \in UserIdsOf(users) \ Range(result.data) :
            \A i \in 1..Len(result.data) : ~PrecedesByFlow(u, result.data[i])

\* topKByFlowCentrality(network, 2) on a chain of four users returned the
\* two users in the middle, both of flow centrality 2, by name
C11_Witness ==
  /\ lastCall.op = "topKByFlowCentrality"
  /\ lastCall.a = <<2>>
  /\ Len(users) = 4
  /\ Len(result.data) = 2
  /\ FlowOf(result.data[1]) = 2
  /\ FlowOf(result.data[2]) = 2
  /\ users[1].userId = result.data[2]

\* an edge into u: u is in the direct-referral list of a user
HasIncomingEdge(u) == \E e \in ChildEdges : e[2] = u

\* C12: in every reachable state of every configuration, the flow
\* centrality computed for a user u is 0 when u has no direct referrals and
\* 0 when no edge leads into u; in a network of fewer than 3 users every
\* user scores 0.
C12_FlowCentralityBoundary ==
  \A u \in UserIdsOf(users) :
    LET fc == CalculateFlowCentrality(Store, u)
    IN /\ ~fc.thrown
       /\ RecordedChildren(u) = <<>> => fc.value = 0
       /\ ~HasIncomingEdge(u) => fc.value = 0
       /\ Len(users) < 3 => fc.value = 0

\* on a network that allows several referrers, a user with two referrers
\* scores, while a user without referrals of its own and a user that no
\* edge leads into stand at its two ends
C12_Witness ==
  /\ config.allowMultipleReferrers
  /\ \E u, v, w \in UserIdsOf(users) :
       /\ CalculateFlowCentrality(Store, v).value > 0
       /\ Cardinality({ e \in ChildEdges : e[2] = v }) = 2
       /\ RecordedChildren(u) = <<>> /\ HasIncomingEdge(u)
       /\ RecordedChildren(w) # <<>> /\ ~HasIncomingEdge(w)

\* C13: two runs that reach the same users and the same edges, whatever the
\* order of their operations, get the same sequence from topKByReach and
\* from topKByFlowCentrality for the same k; so does a repeated call on an
\* unchanged network. (The ranking kept by the caller is from a network of
\* the same users and edges as the one just ranked.)
C13_RankingDeterminism ==
  (/\ observed # <<>>
   /\ lastCall.op = observed[1].op
   /\ lastCall.a = observed[1].k
   /\ UserIdsOf(users) = observed[1].users
   /\ ChildEdges = observed[1].lists
   /\ ParentEdges = observed[1].parents
   /\ RecordedEdges = observed[1].relationships)
    => result = observed[1].result

\* the reads of the network and the two rankings
ReadOps ==
  {"topKByReach", "topKByFlowCentrality", "directReferrals", "allReferrals",
   "getParent", "getAllUsers", "userExists", "getNetworkStats"}

\* C14: a ranking or a read, called on an initialized network with any
\* argument, leaves the users (with every parent and direct-referral list),
\* the relationships and the configuration as they were.
C14_ReadsDoNotMutate ==
  [][(lastCall'.op \in ReadOps /\ isInitialized)
       => /\ users' = users
          /\ referrals' = referrals
          /\ config' = config]_vars

\* getNetworkStats has returned on a network of four users and a chain of
\* two edges
C14_Witness ==
  /\ lastCall.op = "getNetworkStats"
  /\ result.data.totalUsers = 4
  /\ result.data.maxDepth = 2
  /\ Len(users) = 4

\* C15: under the default configuration, after removeUser(x): x is not a
\* user, no relationship has x as referrer or candidate, x is in no
\* direct-referral list, every former child of x is still a user and has no
\* parent; every other parent and list, and every relationship that does not
\* touch x, are as before. removeUser of an unknown user changes nothing and
\* succeeds.
C15_RemoveUserEffect ==
  [][(lastCall'.op = "removeUser" /\ IsValidUserId(lastCall'.a))
       => LET x == lastCall'.a
              formerChildren == Range(RecordedChildren(x))
          IN /\ result'.kind = "OK"
             /\ ~Has(users', x)
             /\ \A e \in RecordedEdges' : e[1] # x /\ e[2] # x
             /\ \A u \in UserIdsOf(users') : ~Includes(Get(users', u).directReferrals, x)
             /\ \A c \in formerChildren : Has(users', c) /\ Get(users', c).parent = None
             /\ UserIdsOf(users') = UserIdsOf(users) \ {x}
             /\ \A u \in UserIdsOf(users') :
                  /\ u \notin formerChildren
                       => Get(users', u).parent = Get(users, u).parent
                  /\ Get(users', u).directReferrals = Filter(Get(users, u).directReferrals, x)
             /\ { referrals'[k] : k \in DOMAIN referrals' }
                  = { rel \in { referrals[k] : k \in DOMAIN referrals } :
                        rel.referrer # x /\ rel.candidate # x }
             /\ ~Has(users, x) => (users' = users /\ referrals' = referrals)]_vars

\* C16: under the default configuration, after any addReferral, removeUser
\* and clear calls, the three views agree (the relationships, the
\* direct-referral lists and the parents hold the same edges), both ends of
\* every relationship are users, and the graph is a forest.
C16_StructuralConsistency ==
  /\ RecordedEdges = ChildEdges
  /\ ChildEdges = ParentEdges
  /\ Endpoints(RecordedEdges) \subseteq UserIdsOf(users)
  /\ IsForest(StoredEdges)

\* an empty or whitespace-only identifier
IsBlank(u) == \A i \in 1..Len(u) : u[i] = " "

\* C17: for a non-blank identifier that is not a user, directReferrals and
\* allReferrals succeed with the empty sequence and getParent succeeds with
\* no parent; for a blank identifier the three fail with INVALID_INPUT; in
\* neither case the network changes.
C17_ReadsOfUnknownUsers ==
  [][LET u == lastCall'.a
     IN (/\ lastCall'.op \in {"directReferrals", "allReferrals", "getParent"}
         /\ (IsBlank(u) \/ ~Has(users, u)))
          => /\ IsBlank(u) => result'.kind = "INVALID_INPUT"
             /\ (~IsBlank(u) /\ lastCall'.op # "getParent")
                  => result' = [kind |-> "OK", data |-> <<>>]
             /\ (~IsBlank(u) /\ lastCall'.op = "getParent")
                  => result' = [kind |-> "OK", data |-> None]
             /\ users' = users
             /\ referrals' = referrals]_vars

\* getParent of a name that is no user returned no parent on a network that
\* has users
C17_Witness ==
  /\ lastCall.op = "getParent"
  /\ ~IsBlank(lastCall.a)
  /\ ~Has(users, lastCall.a)
  /\ Len(users) >= 2
  /\ result = [kind |-> "OK", data |-> None]

Max(S) == IF S = {} THEN 0 ELSE CHOOSE m \in S : \A n \in S : n <= m

RECURSIVE ChainFrom(_, _, _)
\* edges on the longest chain of E that starts at u, at most fuel of them
ChainFrom(E, u, fuel) ==
  LET kids == {e[2] : e \in {x \in E : x[1] = u}}
  IN IF fuel = 0 \/ kids = {} THEN 0
     ELSE 1 + Max({ChainFrom(E, kid, fuel - 1) : kid \in kids})

LongestChain(E) ==
  Max({ChainFrom(E, u, Cardinality(Endpoints(E))) : u \in Endpoints(E)})

\* C18: in every state of a network with the default configuration,
\* getNetworkStats().maxDepth is the number of edges on the longest directed
\* chain of child edges, 0 when there are none.
C18_MaxDepthIsLongestChain ==
  (config = DefaultConfig /\ Acyclic(ChildEdges))
    => StorageGetNetworkStats(Store).maxDepth = LongestChain(ChildEdges)

NetworkOps == {"addReferral"} \cup UserOps \cup PlainOps

\* C19: when the storage raised an error during addReferral, directReferrals,
\* allReferrals, getParent, getAllUsers, getNetworkStats, userExists,
\* removeUser or clear, the implicit initialization included, the operation
\* returned the failure STORAGE_ERROR and did not raise.
C19_NoFaultEscapes ==
  (raised # NoFault /\ lastCall.op \in NetworkOps) => result.kind = "STORAGE_ERROR"

\* the implicit initialization of the first call raised
C19_Witness ==
  /\ raised = "initialize"
  /\ lastCall.op = "addReferral"
  /\ ~isInitialized
  /\ result.kind = "STORAGE_ERROR"

\* no addReferral call is in flight
Quiescent == \A i \in Callers : calls[i].pc \in {"idle", "done"}

\* C20: whatever the interleaving of two addReferral calls at their awaits,
\* once no call is in flight the child edges of a network with the default
\* configuration have no cycle and give no user more than one referrer.
C20_ConcurrentAddReferral ==
  (Quiescent /\ config = DefaultConfig)
    => (Acyclic(ChildEdges) /\ AtMostOneIncoming(ChildEdges))

\* the edge (a, b) exists: it is recorded, b is in a's list and a is b's parent
EdgeExists(a, b) == <<a, b>> \in (RecordedEdges \cap ChildEdges \cap ParentEdges)

\* C21: a successful addReferral(a, b) for an edge (a, b) that exists leaves
\* the store as it was: the users with their parents, lists and creation
\* times, and the relationships with theirs.
C21_ReAddIsNoOp ==
  [][(/\ lastCall'.op = "addReferral"
      /\ result'.kind = "OK"
      /\ EdgeExists(lastCall'.a, lastCall'.b))
       => (users' = users /\ referrals' = referrals)]_vars

\* C22: with or without capacity limits, addReferral(a, b) for an edge (a, b)
\* that exists returns success, also when a has maxReferralsPerUser direct
\* referrals or the network has maxNetworkSize users.
C22_ReAddNeverAnError ==
  [][(lastCall'.op = "addReferral" /\ EdgeExists(lastCall'.a, lastCall'.b))
       => result'.kind = "OK"]_vars

\* the rules an addReferral(r, c) would break in the current state, each
\* taken on its own
BreaksInput(r, c) == IsBlank(r) \/ IsBlank(c)

BreaksSelf(r, c) == ~config.allowSelfReferrals /\ r = c

BreaksSingleReferrer(r, c) ==
  ~config.allowMultipleReferrers /\ RecordedParent(c) \notin {None, r}

BreaksAcyclic(r, c) ==
  ~config.allowCycles /\ (r = c \/ r \in Descendants(ChildEdges, c))

BreaksSize(r, c) ==
  config.maxNetworkSize # 0 /\ Len(users) >= config.maxNetworkSize

BreaksLimit(r, c) ==
  config.maxReferralsPerUser # 0 /\ Len(RecordedChildren(r)) >= config.maxReferralsPerUser

\* the kind of the first broken rule in the order of the checks
FirstBroken(r, c) ==
  IF BreaksInput(r, c) THEN "INVALID_INPUT"
  ELSE IF BreaksSelf(r, c) THEN "SELF_REFERRAL"
  ELSE IF BreaksSingleReferrer(r, c) THEN "MULTIPLE_REFERRERS"
  ELSE IF BreaksAcyclic(r, c) THEN "CYCLE_DETECTED"
  ELSE IF BreaksSize(r, c) THEN "NETWORK_SIZE_LIMIT"
  ELSE IF BreaksLimit(r, c) THEN "REFERRAL_LIMIT"
  ELSE "OK"

\* C23: addReferral reports the first broken rule in the order INVALID_INPUT
\* (the referrer named before the candidate), SELF_REFERRAL,
\* MULTIPLE_REFERRERS, CYCLE_DETECTED, NETWORK_SIZE_LIMIT, REFERRAL_LIMIT: a
\* call that would give the candidate a second referrer and close a cycle
\* reports MULTIPLE_REFERRERS, and addReferral(u, u) under the default
\* configuration reports SELF_REFERRAL.
C23_CheckOrder ==
  [][lastCall'.op = "addReferral"
       => LET r == lastCall'.a
              c == lastCall'.b
          IN /\ result'.kind = FirstBroken(r, c)
             /\ (IsBlank(r) /\ IsBlank(c)) => InvalidInputDetails(r, c) = "referrer"
             /\ (config = DefaultConfig /\ ~IsBlank(r) /\ r = c)
                  => result'.kind = "SELF_REFERRAL"
             /\ (BreaksSingleReferrer(r, c) /\ BreaksAcyclic(r, c) /\ r # c
                   /\ ~BreaksInput(r, c))
                  => result'.kind = "MULTIPLE_REFERRERS"]_vars

\* a call that would have given the candidate a second referrer and closed a
\* cycle, on a network with both capacity limits, was refused
C23_Witness ==
  /\ lastCall.op = "addReferral"
  /\ config.maxNetworkSize # 0 /\ config.maxReferralsPerUser # 0
  /\ RecordedParent(lastCall.b) \notin {None, lastCall.a}
  /\ lastCall.a \in Descendants(ChildEdges, lastCall.b)
  /\ result.kind = "MULTIPLE_REFERRERS"

\* C24: on a network that allows self-referrals and keeps the two other
\* rules, addReferral(u, u) for a valid identifier u without a referrer
\* succeeds and records the edge (u, u).
C24_SelfReferralToggle ==
  [][LET u == lastCall'.a
     IN (/\ lastCall'.op = "addReferral"
         /\ lastCall'.b = u
         /\ config = [DefaultConfig EXCEPT !.allowSelfReferrals = TRUE]
         /\ ~IsBlank(u)
         /\ RecordedParent(u) = None)
          => /\ result'.kind = "OK"
             /\ <<u, u>> \in (RecordedEdges' \cap ChildEdges' \cap ParentEdges')]_vars

\* C25: an accepted addReferral(r, c) for a pair that is not recorded yet
\* adds the relationship (r, c) to those recorded and keeps every other one,
\* whatever characters the identifiers hold, so that totalReferrals grows by
\* one.
C25_EdgesKeyedByPair ==
  [][(/\ lastCall'.op = "addReferral"
      /\ result'.kind = "OK"
      /\ <<lastCall'.a, lastCall'.b>> \notin RecordedEdges)
       => /\ RecordedEdges' = RecordedEdges \cup {<<lastCall'.a, lastCall'.b>>}
          /\ StorageGetNetworkStats([users |-> users', referrals |-> referrals']).totalReferrals
               = StorageGetNetworkStats(Store).totalReferrals + 1]_vars

\* the users allReferrals(u) returns
AllReferralsOf(u) == Range(StorageGetAllReferrals(users, u))

\* C26: in every state of a network with the default configuration, two
\* users neither of which is among the allReferrals of the other have no
\* user in common in their allReferrals.
C26_DisjointSubtrees ==
  config = DefaultConfig
    => \A u, v \in UserIdsOf(users) :
         (u # v /\ v \notin AllReferralsOf(u) /\ u \notin AllReferralsOf(v))
           => AllReferralsOf(u) \cap AllReferralsOf(v) = {}

\* the entries of all direct-referral lists, and the users that have a parent
ListEntries ==
  UNION { { <<i, j>> : j \in 1..Len(users[i].directReferrals) } : i \in 1..Len(users) }

UsersWithParent == { i \in 1..Len(users) : users[i].parent # None }

\* C27: in every state of a network with the default configuration,
\* totalUsers is the number of users, totalReferrals the number of recorded
\* edges, which is also the number of entries of the direct-referral lists
\* and the number of users with a parent, and averageReferralsPerUser is
\* totalReferrals / totalUsers, 0 without users.
C27_StatsConsistent ==
  config = DefaultConfig
    => LET stats == StorageGetNetworkStats(Store)
           avg   == stats.averageReferralsPerUser
       IN /\ stats.totalUsers = Cardinality(UserIdsOf(users))
          /\ stats.totalReferrals = Cardinality(RecordedEdges)
          /\ stats.totalReferrals = Cardinality(ListEntries)
          /\ stats.totalReferrals = Cardinality(UsersWithParent)
          /\ IF stats.totalUsers = 0 THEN avg[1] = 0
             ELSE avg[1] * stats.totalUsers = stats.totalReferrals * avg[2]

\* an addReferral(r, c) that breaks none of the structural rules
PassesStructuralChecks(r, c) ==
  ~(BreaksInput(r, c) \/ BreaksSelf(r, c) \/ BreaksSingleReferrer(r, c)
      \/ BreaksAcyclic(r, c))

\* no user has more direct referrals than maxReferralsPerUser allows
WithinReferralLimit(us) ==
  \A i \in 1..Len(us) : Len(us[i].directReferrals) <= config.maxReferralsPerUser

\* C28 as stated: on a network constructed with maxReferralsPerUser = n, no
\* user has more than n direct referrals after any call, and an
\* addReferral(r, c) that passes the structural checks while r has n direct
\* referrals fails with REFERRAL_LIMIT.
C28_ReferralCapAsStated ==
  [][config.maxReferralsPerUser # 0
       => /\ WithinReferralLimit(users')
          /\ (/\ lastCall'.op = "addReferral"
              /\ PassesStructuralChecks(lastCall'.a, lastCall'.b)
              /\ BreaksLimit(lastCall'.a, lastCall'.b))
               => result'.kind = "REFERRAL_LIMIT"]_vars

\* C28 as amended: the same, the refused call failing with
\* NETWORK_SIZE_LIMIT when a configured maxNetworkSize is reached as well,
\* and with REFERRAL_LIMIT otherwise.
C28_ReferralCap ==
  [][config.maxReferralsPerUser # 0
       => /\ WithinReferralLimit(users')
          /\ (/\ lastCall'.op = "addReferral"
              /\ PassesStructuralChecks(lastCall'.a, lastCall'.b)
              /\ BreaksLimit(lastCall'.a, lastCall'.b))
               => result'.kind = IF BreaksSize(lastCall'.a, lastCall'.b)
                                 THEN "NETWORK_SIZE_LIMIT"
                                 ELSE "REFERRAL_LIMIT"]_vars

\* a user with as many direct referrals as allowed was refused a candidate
\* that is not in its list and has no referrer
C28_Witness ==
  /\ config.maxReferralsPerUser # 0
  /\ lastCall.op = "addReferral"
  /\ result.kind = "REFERRAL_LIMIT"
  /\ Len(RecordedChildren(lastCall.a)) = config.maxReferralsPerUser
  /\ lastCall.b \notin Range(RecordedChildren(lastCall.a))
  /\ RecordedParent(lastCall.b) = None

\* C29: on a network constructed with maxNetworkSize = m, the number of
\* users never exceeds m.
C29_NetworkSizeCap ==
  config.maxNetworkSize # 0 => Len(users) <= config.maxNetworkSize

\* C30: after removeReferral(r, c), for any r and c, and after any later
\* addReferral under the default configuration, the recorded parent of every
\* user is the referrer of its incoming edge or none, and no user has two
\* incoming edges.
C30_RemoveReferralKeepsInvariants ==
  config = DefaultConfig
    => (ParentEdges = ChildEdges /\ AtMostOneIncoming(ChildEdges))

\* C31: in every state of every configuration, allReferrals(u) holds no user
\* twice and does not hold u, so that Reach(u) is the number of distinct
\* descendants of u.
C31_AllReferralsDistinct ==
  \A u \in UserIdsOf(users) :
    /\ NoRepeat(StorageGetAllReferrals(users, u))
    /\ u \notin AllReferralsOf(u)
    /\ CalculateReach(Store, u).value = Cardinality(Descendants(ChildEdges, u) \ {u})

\* the users from which one or more child edges lead to u
ProperAncestors(u) == { s \in UserIdsOf(users) : u \in Descendants(ChildEdges, s) } \ {u}

\* the users one or more child edges lead to from u
ProperDescendants(u) == (Descendants(ChildEdges, u) \cap UserIdsOf(users)) \ {u}

\* C32: in every state of a network with the default configuration, the
\* flow centrality computed for a user is the number of its proper ancestors
\* times the number of its descendants.
C32_FlowIsAncestorsTimesDescendants ==
  config = DefaultConfig
    => \A u \in UserIdsOf(users) :
         CalculateFlowCentrality(Store, u).value
           = Cardinality(ProperAncestors(u)) * Cardinality(ProperDescendants(u))

\* the three structural rules are in force
RulesInForce(cfg) ==
  ~cfg.allowSelfReferrals /\ ~cfg.allowMultipleReferrers /\ ~cfg.allowCycles

\* C33: after any addReferral and updateConfig calls, whenever the three
\* structural rules are in force the child edges are a forest; and
\* updateConfig changes the configuration keys it is given and nothing else.
C33_ForestAcrossConfigChanges ==
  [][/\ RulesInForce(config') => IsForest(ChildEdges')
     /\ lastCall'.op = "updateConfig"
          => /\ users' = users /\ referrals' = referrals
             /\ config' = MergeConfig(config, lastCall'.a)]_vars

\* the users whose lookup did not fail during the last ranking
RemainingUsers == UserIdsOf(users) \ lastCall.b.failing

\* C34: a topKByReach(network, k) with k >= 0 or omitted, during which the
\* allReferrals lookup fails for some users, raises if and only if
\* getAllUsers failed; otherwise it returns the first min(k, number of
\* remaining users) of the users whose lookup did not fail, in the order
\* reach descending, then userId ascending: no user twice, no failed user,
\* each returned user before the next, no omitted remaining user before a
\* returned one.
C34_BestEffortRanking ==
  (lastCall.op = "topKByReach" /\ BindK(lastCall.a) >= 0)
    => /\ (result.kind = "THROWN") = lastCall.b.usersFail
       /\ ~lastCall.b.usersFail
            => /\ result.kind = "OK"
               /\ Len(result.data) = Min(BindK(lastCall.a), Cardinality(RemainingUsers))
               /\ NoRepeat(result.data)
               /\ Range(result.data) \subseteq RemainingUsers
               /\ \A i, j \in 1..Len(result.data) :
                    i < j => PrecedesByReach(result.data[i], result.data[j])
               /\ \A u \in RemainingUsers \ Range(result.data) :
                    \A i \in 1..Len(result.data) : ~PrecedesByReach(u, result.data[i])

\* topKByReach(network, 2) returned two users although the lookup of the
\* user with the largest reach failed, and left out a third user whose
\* lookup did not fail
C34_Witness ==
  /\ lastCall.op = "topKByReach"
  /\ lastCall.a = <<2>>
  /\ ~lastCall.b.usersFail
  /\ result.kind = "OK"
  /\ Len(result.data) = 2
  /\ \E u \in lastCall.b.failing : PrecedesByReach(u, result.data[1])
  /\ RemainingUsers \ Range(result.data) # {}

====
